---- MODULE Spec2Model ----
(***************************************************************************)
(* The bid ledger of the marketplace backend: the handlers                 *)
(*   POST   /api/bids          (createBid)                                 *)
(*   PUT    /api/bids/{id}     (updateBid)                                 *)
(*   DELETE /api/bids/{id}     (deleteBid)                                 *)
(*   POST   /api/products      (createProduct)                             *)
(*   PUT    /api/products/{id} (updateProduct)                             *)
(*   DELETE /api/products/{id} (deleteProduct)                             *)
(* over the Bids and Products tables, and its conversation log: the        *)
(* handlers                                                                *)
(*   GET    /api/conversations                (listConversations)          *)
(*   POST   /api/conversations                (createConversation)         *)
(*   DELETE /api/conversations/{id}           (deleteConversation)         *)
(*   POST   /api/conversations/{id}/messages  (appendMessage)              *)
(*   GET    /api/conversations/{id}/messages  (listMessages)               *)
(* over the Conversations and Messages tables, and its accounts: the       *)
(* handlers                                                                *)
(*   POST   /api/auth/register        (register)                           *)
(*   POST   /api/auth/login           (login)                              *)
(*   GET    /api/auth/verify-email    (verifyEmail)                        *)
(*   POST   /api/auth/request-reset   (requestReset)                       *)
(*   POST   /api/auth/reset-password  (resetPassword)                      *)
(* over the Users, UserSessions and UserLoginHistory tables.  Every        *)
(* handler is an async                                                     *)
(* function that awaits one database statement after another (the          *)
(* statements of a transaction are visible at its commit); a step of the   *)
(* model is one database statement together with the synchronous code     *)
(* that follows it up to the next statement (or the response).  Handlers   *)
(* of concurrent requests interleave at those statements.                  *)
(***************************************************************************)
EXTENDS Integers, FiniteSets, Sequences, TLC

VARIABLES
    bids,           \* the Bids table: a set of rows
    products,       \* the Products table: product id -> row
    conversations,  \* the Conversations table: a set of rows
    messages,       \* the Messages table: a set of rows
    clock,          \* the time getutcdate() and new Date() return
    users,          \* the Users table: a set of rows
    sessions,       \* the UserSessions table: its distinct rows
    loginHistory,   \* the UserLoginHistory table: its distinct rows
    uuid,           \* the number of tokens crypto.randomUUID() has made
    req,            \* per slot: the request it serves, its position and locals
    pre             \* the tables as they were when the current requests began

vars == <<bids, products, conversations, messages, clock,
          users, sessions, loginHistory, uuid, req, pre>>

\* The tables of the bid ledger, and those of the conversation log with the
\* clock that stamps their rows.
ledger == <<bids, products>>
chat == <<conversations, messages, clock>>

\* The tables of the identity store, with the source of its tokens.
identity == <<users, sessions, loginHistory, uuid>>

(***************************************************************************)
(* Bounds.                                                                 *)
(***************************************************************************)
\* Number of bid rows the table holds at a time.
MaxBids == 2

\* Number of conversation rows and of message rows the tables hold at a
\* time, and the last reading of the clock.
MaxConvs == 2
MaxMsgs == 2
MaxClock == 1
MaxElapse == 1

\* Number of product rows the table holds at a time.
MaxProducts == 3

\* Requests that can be in flight at the same time.
Slots == {"r1", "r2"}
FirstSlot == "r1"

(***************************************************************************)
(* Fixed data: users (with the role their token carries) and product ids.  *)
(***************************************************************************)
Users == {"c1", "u1", "u2"}

Role == [u \in Users |-> IF u = "c1" THEN "client" ELSE "upholsterer"]

\* The Authorization header: absent, a token that does not verify, or the
\* token of a user (written as the user's id).
MissingToken == "missing"
ForgedToken == "forged"
BadTokens == {MissingToken, ForgedToken}
\* Tokens jwt.verify rejects: signed with another secret, past their
\* expiry, and no JWT at all.
ExpiredToken == "expired"
MalformedToken == "malformed"
UnverifiableTokens == {ForgedToken, ExpiredToken, MalformedToken}
Tokens == Users \cup BadTokens

BidIds == 1..MaxBids

ConvIds == 1..MaxConvs
MsgIds == 1..MaxMsgs
Times == 0..MaxClock

\* JSON `undefined` for a string field, and for the numeric field amount.
Undefined == "undefined"
NoAmount == -1

\* The userId of an anonymous conversation, and a request without the
\* query parameter `before`.
Null == "null"
NoBefore == -1

(***************************************************************************)
(* The requests the clients send.  Requests with a bad token are answered  *)
(* before the handler reads anything else, so one request of each kind is  *)
(* enough for them.                                                        *)
(***************************************************************************)
\* POST /api/bids: "p9" is the id of no product, "" a body without
\* productId, NoAmount a body without amount, 0 a zero amount.
CreateBidInputs ==
    [token : Users, productId : {"p1", "p2", "p9", ""},
     amount : {NoAmount, 0, 1},
     notes : {Undefined}]
    \cup [token : BadTokens, productId : {"p1"}, amount : {1},
          notes : {Undefined}]

\* PUT /api/bids/{id}: the body's status is any JSON string, "cancelled"
\* one that names no bid status, "" the empty string.
UpdateBodies ==
    {[amount |-> NoAmount, notes |-> Undefined, status |-> Undefined],
     [amount |-> 2, notes |-> "n", status |-> Undefined],
     [amount |-> NoAmount, notes |-> Undefined, status |-> "pending"],
     [amount |-> NoAmount, notes |-> Undefined, status |-> "accepted"],
     [amount |-> NoAmount, notes |-> Undefined, status |-> "rejected"],
     [amount |-> NoAmount, notes |-> Undefined, status |-> "cancelled"],
     [amount |-> NoAmount, notes |-> Undefined, status |-> ""],
     [amount |-> 2, notes |-> "n", status |-> "accepted"]}

UpdateBidInputs ==
    [token : Users, id : BidIds, body : UpdateBodies]
    \cup [token : BadTokens, id : {1},
          body : {[amount |-> 2, notes |-> "n", status |-> "accepted"]}]

\* DELETE /api/bids/{id}
DeleteBidInputs == [token : Users, id : BidIds] \cup [token : BadTokens, id : {1}]

\* PUT /api/products/{id}
UpdateProductInputs ==
    [token : Users, productId : {"p1", "p9"},
     status : {Undefined, "", "ai-generated", "completed"}]
    \cup [token : BadTokens, productId : {"p1"}, status : {"completed"}]

\* The requests that race in the concurrent specification: two
\* upholsterers bidding on p1, its creator deciding on bids, an upholsterer
\* revising a bid, both deleting bids.
CreateBidRace ==
    [token : {"u1", "u2"}, productId : {"p1"}, amount : {1},
     notes : {Undefined}]

UpdateBidRace ==
    [token : {"c1", "u1"}, id : BidIds,
     body : {[amount |-> NoAmount, notes |-> Undefined, status |-> "accepted"],
             [amount |-> NoAmount, notes |-> Undefined, status |-> "rejected"],
             [amount |-> 2, notes |-> "n", status |-> Undefined]}]

DeleteBidRace == [token : {"c1", "u1"}, id : BidIds]

\* POST /api/conversations: the token is optional; "" is an empty
\* initialMessage, Undefined a body without one.
CreateConversationInputs ==
    [token : {"c1", MissingToken, ForgedToken},
     initialMessage : {"hello", "", Undefined}]

\* POST /api/conversations/{id}/messages
AppendMessageInputs ==
    [id : ConvIds, content : {"hi", "", Undefined},
     isUser : {Undefined, "true", "false"}]

\* GET /api/conversations/{id}/messages?limit=&before=
ListMessagesInputs ==
    [id : ConvIds, limit : {Undefined, "", "0", "1"}, before : {NoBefore, 1}]

\* DELETE /api/conversations/{id}
DeleteConversationInputs ==
    [token : {"c1", "u1", MissingToken, ForgedToken}, id : ConvIds]

(***************************************************************************)
(* src/lib/auth.ts                                                         *)
(***************************************************************************)
NoPrincipal == [userId |-> "", role |-> ""]

\* jwt.verify(token, JWT_SECRET) returns the payload of a token signed with
\* the secret and not expired, and throws on every other token.
Raised == [userId |-> "raised", role |-> "raised"]
jwtVerify(token) ==
    IF token \in Users THEN [userId |-> token, role |-> Role[token]]
    ELSE Raised

\* A verifyToken without try and catch.
verifyTokenUncaught(token) == jwtVerify(token)

\* verifyToken: the catch returns null.
verifyToken(token) ==
    IF jwtVerify(token) = Raised THEN NoPrincipal ELSE jwtVerify(token)

isUpholsterer(role) == role = "upholsterer"

(***************************************************************************)
(* Rows and queries.                                                       *)
(***************************************************************************)
NoBid == [Id |-> 0, productId |-> "", upholstererId |-> "", creatorId |-> ""]
NoUpdate == [amount |-> NoAmount, notes |-> Undefined, status |-> Undefined]

BidExists(bs, id) == \E b \in bs : b.Id = id
BidRow(bs, id) == CHOOSE b \in bs : b.Id = id
BidsOf(bs, pid) == {b \in bs : b.productId = pid}

\* A duplicate check that only looks at bids still pending.
findExistingBidPendingOnly(bs, pid, uid) ==
    {b \in bs : b.productId = pid /\ b.upholstererId = uid
                /\ b.status = "pending"}

\* prisma.bids.findFirst({ where: { productId, upholstererId } })
findExistingBid(bs, pid, uid) ==
    {b \in bs : b.productId = pid /\ b.upholstererId = uid}

\* An insert that leaves the status to a column default of 'accepted'.
NewBidWrongStatus(id, pid, uid, amount, notes) ==
    [Id |-> id, productId |-> pid, upholstererId |-> uid,
     amount |-> amount, notes |-> notes, status |-> "accepted"]

\* data of prisma.bids.create in POST /api/bids
NewBid(id, pid, uid, amount, notes) ==
    [Id |-> id, productId |-> pid, upholstererId |-> uid,
     amount |-> amount, notes |-> notes, status |-> "pending"]

\* prisma.bids.findUnique({ where: { Id }, include: { product: { creatorId } } })
findBid(bs, ps, id) ==
    IF BidExists(bs, id)
    THEN LET b == BidRow(bs, id)
         IN [Id |-> id, productId |-> b.productId,
             upholstererId |-> b.upholstererId,
             creatorId |-> ps[b.productId].creatorId]
    ELSE NoBid

\* A string field of a body is truthy when it is given and not empty.
Truthy(str) == str \notin {Undefined, ""}

\* The change set PUT /api/bids/{id} builds from the body for the caller.
UpdateDataFor(bid, userId, amount, notes, status) ==
    IF bid.upholstererId = userId
    THEN [amount |-> amount, notes |-> notes, status |-> Undefined]
    ELSE IF bid.creatorId = userId
    THEN [amount |-> NoAmount, notes |-> Undefined,
          status |-> IF Truthy(status) THEN status ELSE Undefined]
    ELSE NoUpdate

\* An authorization that admits every authenticated user.
MayUpdateBidAnyone(bid, userId) == TRUE

MayUpdateBid(bid, userId) ==
    bid.upholstererId = userId \/ bid.creatorId = userId

\* prisma.bids.update({ where: { Id: id }, data: updateData })
ApplyUpdate(b, data) ==
    [b EXCEPT !.amount = IF data.amount # NoAmount THEN data.amount ELSE @,
              !.notes = IF data.notes # Undefined THEN data.notes ELSE @,
              !.status = IF data.status # Undefined THEN data.status ELSE @]

UpdateBidRow(bs, id, data) ==
    {IF b.Id = id THEN ApplyUpdate(b, data) ELSE b : b \in bs}

\* The condition under which PUT /api/bids/{id} rejects the siblings.
RejectsSiblings(status) == status = "accepted"

\* prisma.bids.updateMany({ where: { productId, Id: { not: id } },
\*                          data: { status: 'rejected' } })
RejectSiblings(bs, pid, id) ==
    {IF b.productId = pid /\ b.Id # id THEN [b EXCEPT !.status = "rejected"]
     ELSE b : b \in bs}

\* An authorization that admits the bid's upholsterer only.
MayDeleteBidOwnOnly(bid, userId) == bid.upholstererId = userId

MayDeleteBid(bid, userId) ==
    ~(bid.upholstererId # userId /\ bid.creatorId # userId)

(***************************************************************************)
(* The identity store.  An email is the sequence of its characters, a      *)
(* password a string; a token of crypto.randomUUID() is its number in the  *)
(* order of generation, so that no two are equal.  A user row carries the  *)
(* fields the handlers read or write after the insert.                     *)
(***************************************************************************)
\* The number of tokens crypto.randomUUID() makes.
MaxUuid == 3

\* A column that holds no token, a body or query that gives none.
NoUuid == 0
\* A DateTime? column that is null.
NoTime == -1
\* The reset token expires an hour after it is made; the times of the
\* identity store are in milliseconds.
ResetTtl == 3600000

Uuids == 1..MaxUuid

\* The addresses of the users c1, u1 and u2, of a visitor, an address
\* without a dot after the @, and the empty address.
EmailOf(u) == <<u, "@", "x", ".", "i", "o">>
NewEmail == <<"n", "@", "x", ".", "i", "o">>
NoDotEmail == <<"n", "@", "x">>
NoEmail == <<>>

\* /^[^\s@]+@[^\s@]+\.[^\s@]+$/.test(email).  Of the characters \s matches,
\* Whitespace holds those a string of this module can hold: the space, the
\* tab, the line feed, the form feed, the carriage return, and in the
\* second line the vertical tab (U+000B), U+00A0, U+1680 and U+FEFF.  The
\* others (U+2000 to U+200A, U+2028, U+2029, U+202F, U+205F, U+3000) are
\* not in the alphabet of the addresses.
Whitespace ==
    {" ", "\t", "\n", "\f", "\r",
     "", " ", " ", "﻿"}
emailRegexTest(email) ==
    \E i \in 2..Len(email) :
        /\ email[i] = "@"
        /\ \A k \in (1..Len(email)) \ {i} :
              email[k] \notin Whitespace \cup {"@"}
        /\ \E j \in (i + 2)..(Len(email) - 1) : email[j] = "."

\* crypto.randomBytes(16).toString('hex')
Salts == {"s1", "s2"}

\* crypto.pbkdf2Sync(password, salt, 1000, 64, 'sha512'): two hashes are
\* equal when password and salt are.
pbkdf2Sync(password, salt) == [password |-> password, salt |-> salt]

\* jwt.sign({ userId, email, role }, JWT_SECRET, { expiresIn: '24h' }): the
\* token holds the second it was signed in (iat, and exp 24 hours later),
\* so two tokens of one user are equal when they were signed in the same
\* second.
NoJwt == [userId |-> "", email |-> NoEmail, role |-> "", iat |-> NoTime]
jwtSign(user, now) ==
    [userId |-> user.Id, email |-> user.email, role |-> user.role,
     iat |-> now \div 1000]

UserExists(us, email) == \E u \in us : u.email = email
UserRow(us, email) == CHOOSE u \in us : u.email = email
UserById(us, id) == CHOOSE u \in us : u.Id = id

\* The row of a user who registered before, with a confirmed address.
Registered(u) ==
    [Id |-> u, email |-> EmailOf(u), fullName |-> u,
     passwordHash |-> pbkdf2Sync("password1", "s1"), passwordSalt |-> "s1",
     role |-> Role[u], emailConfirmed |-> TRUE, confirmationToken |-> NoUuid,
     resetPasswordToken |-> NoUuid, resetPasswordExpiry |-> NoTime,
     lastLoginDate |-> NoTime]

\* Users.Id default newid(): users are never deleted.
newUserId(us) == "n" \o ToString(Cardinality(us) + 1)

(***************************************************************************)
(* Requests.                                                               *)
(***************************************************************************)
Idle ==
    [op |-> "none", pc |-> "idle", token |-> MissingToken, id |-> 0,
     productId |-> "", amount |-> NoAmount, notes |-> Undefined,
     status |-> Undefined, bid |-> NoBid, updateData |-> NoUpdate,
     content |-> Undefined, isUser |-> Undefined, limit |-> Undefined,
     before |-> NoBefore, tx |-> {}, list |-> <<>>,
     email |-> NoEmail, password |-> "", fullName |-> "",
     role |-> Undefined, uuid |-> NoUuid, salt |-> "", userId |-> "",
     title |-> "", description |-> "",
     now |-> NoTime, emailSent |-> FALSE, jwt |-> NoJwt, error |-> "",
     res |-> ""]

InFlight(r) == req[r].pc \notin {"idle", "done"}
Quiescent == \A r \in Slots : ~InFlight(r)
AllIdle == \A r \in Slots : req[r].pc = "idle"

\* A slot serves one request.  A request arrives on a free slot, either
\* when no request is around (on the first slot) or while another one is
\* in flight.
CanBegin(r) ==
    /\ req[r].pc = "idle"
    /\ IF AllIdle THEN r = FirstSlot ELSE ~Quiescent

\* A snapshot of the tables, with the request answered before it was taken.
NoCall == [op |-> "none", id |-> 0, content |-> Undefined]

Snapshot(last) ==
    [bids |-> bids, products |-> products,
     conversations |-> conversations, messages |-> messages,
     users |-> users, last |-> last]

\* What is remembered of an answered request: a message appended, a
\* conversation deleted.
Answered(rec) ==
    IF \/ rec.op = "appendMessage" /\ rec.res = "Created"
       \/ rec.op = "deleteConversation" /\ rec.res = "OK"
    THEN [op |-> rec.op, id |-> rec.id, content |-> rec.content]
    ELSE NoCall

\* A request begins.  What the request before it was is kept for a request
\* that lists messages, the one whose answer is compared with it.
Start(r, rec) ==
    /\ req' = [req EXCEPT ![r] = rec]
    /\ pre' = IF AllIdle
              THEN Snapshot(IF rec.op = "listMessages" THEN pre.last
                            ELSE NoCall)
              ELSE pre

Respond(r, kind) ==
    req' = [req EXCEPT ![r].pc = "done", ![r].res = kind,
                       ![r].bid = NoBid, ![r].updateData = NoUpdate,
                       ![r].tx = {}]
Goto(r, label) == req' = [req EXCEPT ![r].pc = label]

\* The code before the first database statement of every protected handler.
\* An exception in it is caught by the handler, which answers 500.
TokenCheck(token) ==
    IF token = MissingToken THEN "Unauthorized"
    ELSE IF verifyToken(token) = Raised THEN "Internal"
    ELSE IF verifyToken(token) = NoPrincipal THEN "Unauthorized"
    ELSE "pass"

Finish(rec, kind) == [rec EXCEPT !.pc = "done", !.res = kind]

(***************************************************************************)
(* POST /api/bids                                                          *)
(***************************************************************************)
CreatesInFlight ==
    Cardinality({s \in Slots : req[s].op = "createBid" /\ InFlight(s)})

\* newid(): an id no row has.  The ids of rows that a request in progress
\* has read, and of the rows the table held when the current requests
\* began, are not handed out again.
HeldIds ==
    {req[s].id : s \in {t \in Slots : req[t].pc \in {"update", "updateMany", "delete"}}}

FreeIdsWith(snapshot) ==
    BidIds \ ({b.Id : b \in bids} \cup {b.Id : b \in snapshot} \cup HeldIds)

FreeIds == FreeIdsWith(pre.bids)

newid == CHOOSE i \in FreeIds : \A j \in FreeIds : i <= j

\* The checks of POST /api/bids that precede the first query.
CreateBidPrecheck(token, productId, amount) ==
    IF TokenCheck(token) # "pass" THEN TokenCheck(token)
    ELSE IF ~isUpholsterer(verifyToken(token).role) THEN "Unauthorized"
    ELSE IF productId = "" \/ amount = 0 \/ amount = NoAmount
    THEN "InvalidRequest"
    ELSE "pass"

CreateBidBegin(r, inputs) ==
    /\ CanBegin(r)
    /\ Cardinality(FreeIdsWith(IF AllIdle THEN bids ELSE pre.bids))
          > CreatesInFlight
    /\ \E in \in inputs :
         LET rec == [Idle EXCEPT !.op = "createBid", !.token = in.token,
                                 !.productId = in.productId,
                                 !.amount = in.amount, !.notes = in.notes]
             chk == CreateBidPrecheck(in.token, in.productId, in.amount)
         IN Start(r, IF chk = "pass" THEN [rec EXCEPT !.pc = "findProduct"]
                     ELSE Finish(rec, chk))
    /\ UNCHANGED <<bids, products>>
    /\ UNCHANGED chat
    /\ UNCHANGED identity

\* A product lookup that does not look at the product's status.
ProductCheckNoStatus(ps, productId) ==
    IF productId \notin DOMAIN ps THEN "NotFound" ELSE "pass"

\* The outcome of the product lookup of POST /api/bids.
ProductCheck(ps, productId) ==
    IF productId \notin DOMAIN ps THEN "NotFound"
    ELSE IF ps[productId].status # "ai-generated" THEN "InvalidState"
    ELSE "pass"

CreateBidFindProduct(r) ==
    /\ req[r].op = "createBid" /\ req[r].pc = "findProduct"
    /\ LET chk == ProductCheck(products, req[r].productId)
       IN IF chk = "pass" THEN Goto(r, "findExisting") ELSE Respond(r, chk)
    /\ UNCHANGED <<bids, products, pre>>
    /\ UNCHANGED chat
    /\ UNCHANGED identity

CreateBidFindExisting(r) ==
    /\ req[r].op = "createBid" /\ req[r].pc = "findExisting"
    /\ IF findExistingBid(bids, req[r].productId,
                          verifyToken(req[r].token).userId) # {}
       THEN Respond(r, "Conflict")
       ELSE Goto(r, "insert")
    /\ UNCHANGED <<bids, products, pre>>
    /\ UNCHANGED chat
    /\ UNCHANGED identity

CreateBidInsert(r) ==
    /\ req[r].op = "createBid" /\ req[r].pc = "insert"
    /\ IF req[r].productId \notin DOMAIN products
       THEN \* the product was deleted since it was read: the foreign key
            \* of Bids.productId refuses the row and the catch answers 500
            /\ Respond(r, "Internal")
            /\ UNCHANGED bids
       ELSE /\ bids' = bids \cup {NewBid(newid, req[r].productId,
                                         verifyToken(req[r].token).userId,
                                         req[r].amount, req[r].notes)}
            /\ req' = [req EXCEPT ![r].pc = "done", ![r].res = "Created",
                                  ![r].id = newid]
    /\ UNCHANGED <<products, pre>>
    /\ UNCHANGED chat
    /\ UNCHANGED identity

(***************************************************************************)
(* PUT /api/bids/{id}                                                      *)
(***************************************************************************)
UpdateBidBegin(r, inputs) ==
    /\ CanBegin(r)
    /\ \E in \in inputs :
         LET rec == [Idle EXCEPT !.op = "updateBid", !.token = in.token,
                                 !.id = in.id, !.amount = in.body.amount,
                                 !.notes = in.body.notes,
                                 !.status = in.body.status]
             chk == TokenCheck(in.token)
         IN Start(r, IF chk = "pass" THEN [rec EXCEPT !.pc = "findBid"]
                     ELSE Finish(rec, chk))
    /\ UNCHANGED <<bids, products>>
    /\ UNCHANGED chat
    /\ UNCHANGED identity

UpdateBidFind(r) ==
    /\ req[r].op = "updateBid" /\ req[r].pc = "findBid"
    /\ LET bid == findBid(bids, products, req[r].id)
           userId == verifyToken(req[r].token).userId
           data == UpdateDataFor(bid, userId, req[r].amount, req[r].notes,
                                 req[r].status)
       IN IF bid = NoBid THEN Respond(r, "NotFound")
          ELSE IF ~MayUpdateBid(bid, userId) THEN Respond(r, "Unauthorized")
          ELSE IF data = NoUpdate THEN Respond(r, "InvalidRequest")
          ELSE req' = [req EXCEPT ![r].pc = "update", ![r].bid = bid,
                                  ![r].updateData = data]
    /\ UNCHANGED <<bids, products, pre>>
    /\ UNCHANGED chat
    /\ UNCHANGED identity

UpdateBidUpdate(r) ==
    /\ req[r].op = "updateBid" /\ req[r].pc = "update"
    /\ IF ~BidExists(bids, req[r].id)
       THEN /\ Respond(r, "Internal")
            /\ UNCHANGED bids
       ELSE /\ bids' = UpdateBidRow(bids, req[r].id, req[r].updateData)
            /\ IF RejectsSiblings(req[r].status)
               THEN Goto(r, "updateMany")
               ELSE Respond(r, "OK")
    /\ UNCHANGED <<products, pre>>
    /\ UNCHANGED chat
    /\ UNCHANGED identity

\* An accept transition that also closes the product to further bids.
UpdateBidRejectOthersClosingProduct(r) ==
    /\ req[r].op = "updateBid" /\ req[r].pc = "updateMany"
    /\ bids' = RejectSiblings(bids, req[r].bid.productId, req[r].id)
    /\ products' = [products EXCEPT ![req[r].bid.productId].status =
                                        "completed"]
    /\ Respond(r, "OK")
    /\ UNCHANGED <<pre>>
    /\ UNCHANGED chat
    /\ UNCHANGED identity

UpdateBidRejectOthers(r) ==
    /\ req[r].op = "updateBid" /\ req[r].pc = "updateMany"
    /\ bids' = RejectSiblings(bids, req[r].bid.productId, req[r].id)
    /\ Respond(r, "OK")
    /\ UNCHANGED <<products, pre>>
    /\ UNCHANGED chat
    /\ UNCHANGED identity

(***************************************************************************)
(* DELETE /api/bids/{id}                                                   *)
(***************************************************************************)
DeleteBidBegin(r, inputs) ==
    /\ CanBegin(r)
    /\ \E in \in inputs :
         LET rec == [Idle EXCEPT !.op = "deleteBid", !.token = in.token,
                                 !.id = in.id]
             chk == TokenCheck(in.token)
         IN Start(r, IF chk = "pass" THEN [rec EXCEPT !.pc = "findBid"]
                     ELSE Finish(rec, chk))
    /\ UNCHANGED <<bids, products>>
    /\ UNCHANGED chat
    /\ UNCHANGED identity

DeleteBidFind(r) ==
    /\ req[r].op = "deleteBid" /\ req[r].pc = "findBid"
    /\ LET bid == findBid(bids, products, req[r].id)
           userId == verifyToken(req[r].token).userId
       IN IF bid = NoBid THEN Respond(r, "NotFound")
          ELSE IF ~MayDeleteBid(bid, userId) THEN Respond(r, "Unauthorized")
          ELSE req' = [req EXCEPT ![r].pc = "delete", ![r].bid = bid]
    /\ UNCHANGED <<bids, products, pre>>
    /\ UNCHANGED chat
    /\ UNCHANGED identity

DeleteBidDelete(r) ==
    /\ req[r].op = "deleteBid" /\ req[r].pc = "delete"
    /\ IF ~BidExists(bids, req[r].id)
       THEN /\ Respond(r, "Internal")
            /\ UNCHANGED bids
       ELSE /\ bids' = {b \in bids : b.Id # req[r].id}
            /\ Respond(r, "OK")
    /\ UNCHANGED <<products, pre>>
    /\ UNCHANGED chat
    /\ UNCHANGED identity

(***************************************************************************)
(* PUT /api/products/{id}                                                  *)
(***************************************************************************)
UpdateProductBegin(r, inputs) ==
    /\ CanBegin(r)
    /\ \E in \in inputs :
         LET rec == [Idle EXCEPT !.op = "updateProduct", !.token = in.token,
                                 !.productId = in.productId,
                                 !.status = in.status]
             chk == TokenCheck(in.token)
         IN Start(r, IF chk = "pass" THEN [rec EXCEPT !.pc = "findProduct"]
                     ELSE Finish(rec, chk))
    /\ UNCHANGED <<bids, products>>
    /\ UNCHANGED chat
    /\ UNCHANGED identity

\* An authorization that admits every authenticated user.
MayChangeProductAnyone(product, userId) == TRUE

\* product.creatorId !== decodedToken.userId answers 401.
MayChangeProduct(product, userId) == ~(product.creatorId # userId)

UpdateProductFind(r) ==
    /\ req[r].op = "updateProduct" /\ req[r].pc = "findProduct"
    /\ IF req[r].productId \notin DOMAIN products THEN Respond(r, "NotFound")
       ELSE IF ~MayChangeProduct(products[req[r].productId],
                                 verifyToken(req[r].token).userId)
       THEN Respond(r, "Unauthorized")
       ELSE Goto(r, "updateProduct")
    /\ UNCHANGED <<bids, products, pre>>
    /\ UNCHANGED chat
    /\ UNCHANGED identity

UpdateProductUpdate(r) ==
    /\ req[r].op = "updateProduct" /\ req[r].pc = "updateProduct"
    /\ IF req[r].productId \notin DOMAIN products
       THEN /\ Respond(r, "Internal")
            /\ UNCHANGED products
       ELSE /\ products' =
                 [products EXCEPT ![req[r].productId].status =
                     IF Truthy(req[r].status) THEN req[r].status ELSE @]
            /\ Respond(r, "OK")
    /\ UNCHANGED <<bids, pre>>
    /\ UNCHANGED chat
    /\ UNCHANGED identity

(***************************************************************************)
(* DELETE /api/products/{id}                                               *)
(***************************************************************************)
DeleteProductBegin(r, inputs) ==
    /\ CanBegin(r)
    /\ \E in \in inputs :
         LET rec == [Idle EXCEPT !.op = "deleteProduct", !.token = in.token,
                                 !.productId = in.productId]
             chk == TokenCheck(in.token)
         IN Start(r, IF chk = "pass" THEN [rec EXCEPT !.pc = "findProduct"]
                     ELSE Finish(rec, chk))
    /\ UNCHANGED ledger
    /\ UNCHANGED chat
    /\ UNCHANGED identity

DeleteProductFind(r) ==
    /\ req[r].op = "deleteProduct" /\ req[r].pc = "findProduct"
    /\ IF req[r].productId \notin DOMAIN products THEN Respond(r, "NotFound")
       ELSE IF ~MayChangeProduct(products[req[r].productId],
                                 verifyToken(req[r].token).userId)
       THEN Respond(r, "Unauthorized")
       ELSE Goto(r, "deleteProduct")
    /\ UNCHANGED <<pre>>
    /\ UNCHANGED ledger
    /\ UNCHANGED chat
    /\ UNCHANGED identity

\* prisma.products.delete({ where: { Id: id } }): it throws when the row
\* is gone or when a bid still refers to it, and the catch answers 500.
DeleteProductDelete(r) ==
    /\ req[r].op = "deleteProduct" /\ req[r].pc = "deleteProduct"
    /\ IF \/ req[r].productId \notin DOMAIN products
          \/ BidsOf(bids, req[r].productId) # {}
       THEN /\ Respond(r, "Internal")
            /\ UNCHANGED products
       ELSE /\ products' = [p \in DOMAIN products \ {req[r].productId} |->
                              products[p]]
            /\ Respond(r, "OK")
    /\ UNCHANGED <<bids, pre>>
    /\ UNCHANGED chat
    /\ UNCHANGED identity

(***************************************************************************)
(* POST /api/products                                                      *)
(***************************************************************************)
\* Products.Id default newid(): the first id that no row has and that no
\* row had when the current request began.
ProductId(i) == "p" \o ToString(i)
FreeProductNumbers ==
    {i \in 1..MaxProducts :
        ProductId(i) \notin DOMAIN products \cup DOMAIN pre.products}
newProductId ==
    ProductId(CHOOSE i \in FreeProductNumbers :
                 \A j \in FreeProductNumbers : i <= j)

\* The checks of POST /api/products that precede the insert.
CreateProductPrecheck(token, title, description) ==
    IF TokenCheck(token) # "pass" THEN TokenCheck(token)
    ELSE IF title = "" \/ description = "" THEN "InvalidRequest"
    ELSE "pass"

CreateProductBegin(r, inputs) ==
    /\ CanBegin(r)
    /\ {i \in 1..MaxProducts : ProductId(i) \notin DOMAIN products} # {}
    /\ \E in \in inputs :
         LET rec == [Idle EXCEPT !.op = "createProduct", !.token = in.token,
                                 !.title = in.title,
                                 !.description = in.description,
                                 !.status = in.status]
             chk == CreateProductPrecheck(in.token, in.title, in.description)
         IN Start(r, IF chk = "pass" THEN [rec EXCEPT !.pc = "createProduct"]
                     ELSE Finish(rec, chk))
    /\ UNCHANGED ledger
    /\ UNCHANGED chat
    /\ UNCHANGED identity

\* data of prisma.products.create, with status = 'ai-generated' for a body
\* that gives none.
NewProduct(userId, status) ==
    [status |-> IF status = Undefined THEN "ai-generated" ELSE status,
     creatorId |-> userId, manufacturerId |-> Null]

CreateProductInsert(r) ==
    /\ req[r].op = "createProduct" /\ req[r].pc = "createProduct"
    /\ products' =
          [p \in DOMAIN products \cup {newProductId} |->
              IF p = newProductId
              THEN NewProduct(verifyToken(req[r].token).userId, req[r].status)
              ELSE products[p]]
    /\ req' = [req EXCEPT ![r].pc = "done", ![r].res = "Created",
                          ![r].productId = newProductId]
    /\ UNCHANGED <<bids, pre>>
    /\ UNCHANGED chat
    /\ UNCHANGED identity

(***************************************************************************)
(* The conversation log.  A conversation row carries the fields the         *)
(* handlers read or write after the insert (Id, userId, updatedAt), a       *)
(* message row every field.                                                 *)
(***************************************************************************)
ConvExists(cs, id) == \E c \in cs : c.Id = id
ConvRow(cs, id) == CHOOSE c \in cs : c.Id = id
MessagesOf(ms, id) == {m \in ms : m.conversationId = id}

\* A write that is visible to the other connections at once.
Autocommitted(old, new) == new

\* A write of a statement inside prisma.$transaction: the table the other
\* connections read is the old one until the transaction commits.
Uncommitted(old, new) == old

\* newid() for the two tables: the smallest id that no row has, that no row
\* had when the current requests began and that no open transaction holds.
TxIds(ops) ==
    UNION {{x.Id : x \in req[s].tx} : s \in {t \in Slots : req[t].op \in ops}}
FreeConvIds ==
    ConvIds \ ({c.Id : c \in conversations}
               \cup TxIds({"createConversation"})
               \cup {c.Id : c \in pre.conversations})
FreeMsgIds ==
    MsgIds \ ({m.Id : m \in messages}
              \cup TxIds({"appendMessage", "deleteConversation"})
              \cup {m.Id : m \in pre.messages})
newConvId == CHOOSE i \in FreeConvIds : \A j \in FreeConvIds : i <= j
newMsgId == CHOOSE i \in FreeMsgIds : \A j \in FreeMsgIds : i <= j

\* The requests in flight that have a message to insert yet.
InsertsInFlight ==
    Cardinality({s \in Slots :
                   /\ InFlight(s)
                   /\ \/ req[s].op = "createConversation"
                      \/ req[s].op = "appendMessage" /\ req[s].tx = {}})

(***************************************************************************)
(* POST /api/conversations                                                 *)
(***************************************************************************)
\* A userId taken from the token without verifying it.
OptionalUserIdUnverified(token) ==
    IF token # MissingToken THEN token ELSE Null

\* The userId the handler takes from an optional token.
OptionalUserId(token) ==
    IF token # MissingToken /\ verifyToken(token) # NoPrincipal
    THEN verifyToken(token).userId
    ELSE Null

CreateConversationBegin(r, inputs) ==
    /\ CanBegin(r)
    /\ FreeConvIds # {} /\ Cardinality(FreeMsgIds) > InsertsInFlight
    /\ \E in \in inputs :
         LET rec == [Idle EXCEPT !.op = "createConversation",
                                 !.token = in.token,
                                 !.content = in.initialMessage]
         IN Start(r, IF ~Truthy(in.initialMessage)
                     THEN Finish(rec, "InvalidRequest")
                     ELSE [rec EXCEPT !.pc = "createConv"])
    /\ UNCHANGED ledger
    /\ UNCHANGED chat
    /\ UNCHANGED identity

\* tx.conversations.create
CreateConversationCreate(r) ==
    /\ req[r].op = "createConversation" /\ req[r].pc = "createConv"
    /\ LET row == [Id |-> newConvId, userId |-> OptionalUserId(req[r].token),
                   updatedAt |-> clock]
       IN /\ conversations' =
                 Uncommitted(conversations, conversations \cup {row})
          /\ req' = [req EXCEPT ![r].pc = "createMsg", ![r].id = row.Id,
                                ![r].tx = {row}]
    /\ UNCHANGED <<messages, clock, pre>>
    /\ UNCHANGED ledger
    /\ UNCHANGED identity

\* tx.messages.create, and the commit of the transaction.
CreateConversationMessage(r) ==
    /\ req[r].op = "createConversation" /\ req[r].pc = "createMsg"
    /\ conversations' = conversations \cup req[r].tx
    /\ messages' = messages \cup
          {[Id |-> newMsgId, conversationId |-> req[r].id,
            content |-> req[r].content, isUser |-> TRUE,
            createdAt |-> clock]}
    /\ Respond(r, "Created")
    /\ UNCHANGED <<clock, pre>>
    /\ UNCHANGED ledger
    /\ UNCHANGED identity

(***************************************************************************)
(* POST /api/conversations/{id}/messages                                   *)
(***************************************************************************)
\* const { content, isUser = true } = await request.json()
IsUserOf(field) == IF field = Undefined THEN TRUE ELSE field = "true"

AppendMessageBegin(r, inputs) ==
    /\ CanBegin(r)
    /\ Cardinality(FreeMsgIds) > InsertsInFlight
    /\ \E in \in inputs :
         Start(r, [Idle EXCEPT !.op = "appendMessage", !.pc = "findConv",
                               !.id = in.id, !.content = in.content,
                               !.isUser = in.isUser])
    /\ UNCHANGED ledger
    /\ UNCHANGED chat
    /\ UNCHANGED identity

AppendMessageFind(r) ==
    /\ req[r].op = "appendMessage" /\ req[r].pc = "findConv"
    /\ IF ~ConvExists(conversations, req[r].id) THEN Respond(r, "NotFound")
       ELSE IF ~Truthy(req[r].content) THEN Respond(r, "InvalidRequest")
       ELSE Goto(r, "createMsg")
    /\ UNCHANGED <<pre>>
    /\ UNCHANGED ledger
    /\ UNCHANGED chat
    /\ UNCHANGED identity

\* tx.messages.create: the foreign key needs the conversation; createdAt
\* is the database's getutcdate() at the insert.
AppendMessageCreate(r) ==
    /\ req[r].op = "appendMessage" /\ req[r].pc = "createMsg"
    /\ IF ~ConvExists(conversations, req[r].id)
       THEN /\ Respond(r, "Internal")
            /\ UNCHANGED messages
       ELSE LET row == [Id |-> newMsgId, conversationId |-> req[r].id,
                        content |-> req[r].content,
                        isUser |-> IsUserOf(req[r].isUser),
                        createdAt |-> clock]
            IN /\ messages' = Uncommitted(messages, messages \cup {row})
               /\ req' = [req EXCEPT ![r].pc = "resume", ![r].tx = {row}]
    /\ UNCHANGED <<conversations, clock, pre>>
    /\ UNCHANGED ledger
    /\ UNCHANGED identity

\* The handler resumes after `await tx.messages.create` and calls
\* tx.conversations.update({ data: { updatedAt: new Date() } }): new Date()
\* is read now, after the insert and before the update runs.
AppendMessageResume(r) ==
    /\ req[r].op = "appendMessage" /\ req[r].pc = "resume"
    /\ req' = [req EXCEPT ![r].pc = "touch", ![r].now = clock]
    /\ UNCHANGED <<pre>>
    /\ UNCHANGED ledger
    /\ UNCHANGED chat
    /\ UNCHANGED identity

\* A transaction that commits its insert also when the conversation is
\* gone, as an updateMany that matches no row would.
AppendMessageTouchAnyway(r) ==
    /\ req[r].op = "appendMessage" /\ req[r].pc = "touch"
    /\ messages' = messages \cup req[r].tx
    /\ conversations' =
          {IF c.Id = req[r].id THEN [c EXCEPT !.updatedAt = req[r].now]
           ELSE c : c \in conversations}
    /\ Respond(r, "Created")
    /\ UNCHANGED <<clock, pre>>
    /\ UNCHANGED ledger
    /\ UNCHANGED identity

\* tx.conversations.update running with the new Date() read when it was
\* called, and the commit of the transaction.
AppendMessageTouch(r) ==
    /\ req[r].op = "appendMessage" /\ req[r].pc = "touch"
    /\ IF ~ConvExists(conversations, req[r].id)
       THEN /\ Respond(r, "Internal")
            /\ UNCHANGED <<conversations, messages>>
       ELSE /\ messages' = messages \cup req[r].tx
            /\ conversations' =
                 {IF c.Id = req[r].id
                  THEN [c EXCEPT !.updatedAt = req[r].now]
                  ELSE c : c \in conversations}
            /\ Respond(r, "Created")
    /\ UNCHANGED <<clock, pre>>
    /\ UNCHANGED ledger
    /\ UNCHANGED identity

(***************************************************************************)
(* GET /api/conversations/{id}/messages                                    *)
(***************************************************************************)
\* parseInt on the decimal strings the requests carry.
parseInt(str) ==
    CASE str = "0" -> 0
      [] str = "1" -> 1
      [] str = "50" -> 50

\* parseInt(searchParams.get('limit') || '50')
LimitOf(param) == parseInt(IF Truthy(param) THEN param ELSE "50")

RECURSIVE Perms(_)
Perms(S) ==
    IF S = {} THEN {<<>>}
    ELSE UNION {{<<x>> \o p : p \in Perms(S \ {x})} : x \in S}

\* orderBy: { createdAt: 'desc' }: every order of the rows in which no row
\* comes before a row with a later createdAt; rows with the same createdAt
\* come in any order.
NewestFirst(S) ==
    {seq \in Perms(S) :
        \A i, j \in 1..Len(seq) :
            i < j => seq[i].createdAt >= seq[j].createdAt}

Take(seq, n) == SubSeq(seq, 1, IF n < Len(seq) THEN n ELSE Len(seq))

\* prisma.messages.findMany({ where, orderBy, take: limit }): the results
\* the query can give.
findMany(ms, id, before, limit) ==
    {Take(seq, limit) :
        seq \in NewestFirst({m \in MessagesOf(ms, id) :
                                before = NoBefore \/ m.createdAt < before})}

ListMessagesBegin(r, inputs) ==
    /\ CanBegin(r)
    /\ \E in \in inputs :
         Start(r, [Idle EXCEPT !.op = "listMessages", !.pc = "findConv",
                               !.id = in.id, !.limit = in.limit,
                               !.before = in.before])
    /\ UNCHANGED ledger
    /\ UNCHANGED chat
    /\ UNCHANGED identity

ListMessagesFind(r) ==
    /\ req[r].op = "listMessages" /\ req[r].pc = "findConv"
    /\ IF ~ConvExists(conversations, req[r].id) THEN Respond(r, "NotFound")
       ELSE Goto(r, "findMany")
    /\ UNCHANGED <<pre>>
    /\ UNCHANGED ledger
    /\ UNCHANGED chat
    /\ UNCHANGED identity

ListMessagesFindMany(r) ==
    /\ req[r].op = "listMessages" /\ req[r].pc = "findMany"
    /\ \E result \in findMany(messages, req[r].id, req[r].before,
                              LimitOf(req[r].limit)) :
         req' = [req EXCEPT ![r].pc = "done", ![r].res = "OK",
                            ![r].list = result]
    /\ UNCHANGED <<pre>>
    /\ UNCHANGED ledger
    /\ UNCHANGED chat
    /\ UNCHANGED identity

(***************************************************************************)
(* GET /api/conversations?userId=                                          *)
(***************************************************************************)
ListConversationsBegin(r, inputs) ==
    /\ CanBegin(r)
    /\ \E in \in inputs :
         LET rec == [Idle EXCEPT !.op = "listConversations",
                                 !.token = in.token, !.userId = in.userId]
             chk == TokenCheck(in.token)
         IN Start(r, IF chk = "pass" THEN [rec EXCEPT !.pc = "findMany"]
                     ELSE Finish(rec, chk))
    /\ UNCHANGED ledger
    /\ UNCHANGED chat
    /\ UNCHANGED identity

\* orderBy: { updatedAt: 'desc' }
LastUpdatedFirst(S) ==
    {seq \in Perms(S) :
        \A i, j \in 1..Len(seq) :
            i < j => seq[i].updatedAt >= seq[j].updatedAt}

\* prisma.conversations.findMany({ where, include: { messages: { orderBy:
\* { createdAt: 'desc' }, take: 1 } }, orderBy }): the conversations of
\* the user the query names, or all of them, each with a latest message.
LatestMessages(cs, ms) ==
    {f \in [{c.Id : c \in cs} ->
              UNION {findMany(ms, c.Id, NoBefore, 1) : c \in cs}] :
        \A id \in DOMAIN f : f[id] \in findMany(ms, id, NoBefore, 1)}

findConversations(cs, ms, userId) ==
    {[i \in 1..Len(seq) |->
         [Id |-> seq[i].Id, userId |-> seq[i].userId,
          messages |-> f[seq[i].Id]]]
     : seq \in LastUpdatedFirst({c \in cs : userId = ""
                                            \/ c.userId = userId}),
       f \in LatestMessages(cs, ms)}

ListConversationsFindMany(r) ==
    /\ req[r].op = "listConversations" /\ req[r].pc = "findMany"
    /\ \E result \in findConversations(conversations, messages,
                                       req[r].userId) :
         req' = [req EXCEPT ![r].pc = "done", ![r].res = "OK",
                            ![r].list = result]
    /\ UNCHANGED <<pre>>
    /\ UNCHANGED ledger
    /\ UNCHANGED chat
    /\ UNCHANGED identity

(***************************************************************************)
(* DELETE /api/conversations/{id}                                          *)
(***************************************************************************)
\* An authorization that admits the owner only, also for an anonymous
\* conversation.
MayDeleteConversationOwnerOnly(conv, userId) == conv.userId = userId

MayDeleteConversation(conv, userId) ==
    ~(conv.userId # Null /\ conv.userId # userId)

DeleteConversationBegin(r, inputs) ==
    /\ CanBegin(r)
    /\ \E in \in inputs :
         LET rec == [Idle EXCEPT !.op = "deleteConversation",
                                 !.token = in.token, !.id = in.id]
             chk == TokenCheck(in.token)
         IN Start(r, IF chk = "pass" THEN [rec EXCEPT !.pc = "findConv"]
                     ELSE Finish(rec, chk))
    /\ UNCHANGED ledger
    /\ UNCHANGED chat
    /\ UNCHANGED identity

DeleteConversationFind(r) ==
    /\ req[r].op = "deleteConversation" /\ req[r].pc = "findConv"
    /\ IF ~ConvExists(conversations, req[r].id) THEN Respond(r, "NotFound")
       ELSE IF ~MayDeleteConversation(ConvRow(conversations, req[r].id),
                                      verifyToken(req[r].token).userId)
       THEN Respond(r, "Unauthorized")
       ELSE Goto(r, "deleteMsgs")
    /\ UNCHANGED <<pre>>
    /\ UNCHANGED ledger
    /\ UNCHANGED chat
    /\ UNCHANGED identity

\* Another connection has inserted a message of conversation id in a
\* transaction that is still open: the row is locked until it ends.
PendingInsert(r, id) ==
    \E s \in Slots \ {r} :
        /\ req[s].op = "appendMessage" /\ req[s].pc \in {"resume", "touch"}
        /\ req[s].id = id

\* prisma.messages.deleteMany({ where: { conversationId } }), the first
\* statement of the transaction.  It waits for a locked row of the
\* conversation.
DeleteConversationMessages(r) ==
    /\ req[r].op = "deleteConversation" /\ req[r].pc = "deleteMsgs"
    /\ ~PendingInsert(r, req[r].id)
    /\ LET gone == MessagesOf(messages, req[r].id)
       IN /\ messages' = Uncommitted(messages, messages \ gone)
          /\ req' = [req EXCEPT ![r].pc = "deleteConv", ![r].tx = gone]
    /\ UNCHANGED <<conversations, clock, pre>>
    /\ UNCHANGED ledger
    /\ UNCHANGED identity

\* prisma.conversations.delete({ where: { Id } }), and the commit of the
\* transaction.  The statement throws when the row is gone or when a
\* message still refers to it, and the transaction is rolled back.  With a
\* message inserted by a transaction that is still open, which goes on to
\* update the conversation, the two transactions wait for each other and
\* the database ends one of them: this one, or the other, which then
\* finds the conversation gone.
DeleteConversationDelete(r) ==
    /\ req[r].op = "deleteConversation" /\ req[r].pc = "deleteConv"
    /\ \/ /\ \/ ~ConvExists(conversations, req[r].id)
             \/ MessagesOf(messages \ req[r].tx, req[r].id) # {}
             \/ PendingInsert(r, req[r].id)
          /\ Respond(r, "Internal")
          /\ UNCHANGED <<conversations, messages>>
       \/ /\ ConvExists(conversations, req[r].id)
          /\ MessagesOf(messages \ req[r].tx, req[r].id) = {}
          /\ messages' = messages \ req[r].tx
          /\ conversations' = {c \in conversations : c.Id # req[r].id}
          /\ Respond(r, "OK")
    /\ UNCHANGED <<clock, pre>>
    /\ UNCHANGED ledger
    /\ UNCHANGED identity

(***************************************************************************)
(* The identity store: src/app/api/auth.  The handlers answer through      *)
(* Answer, which also gives the error message of the response.             *)
(***************************************************************************)
Answer(r, kind, error) ==
    req' = [req EXCEPT ![r].pc = "done", ![r].res = kind, ![r].error = error]

\* The requests in flight that have a token to make yet.
UuidsOwed ==
    Cardinality({s \in Slots :
                   /\ req[s].op \in {"register", "requestReset"}
                   /\ req[s].pc = "findUser"})

\* The checks of POST /api/auth/register that precede the first query.
RegisterPrecheck(email, password, fullName) ==
    IF email = NoEmail \/ password = "" \/ fullName = ""
    THEN "Email, password, and full name are required"
    ELSE IF ~emailRegexTest(email) THEN "Invalid email format"
    ELSE IF Len(password) < 8
    THEN "Password must be at least 8 characters long"
    ELSE "pass"

\* const { email, password, fullName, phoneNumber, role = 'client' }
RoleOf(field) == IF field = Undefined THEN "client" ELSE field

RegisterBegin(r, inputs) ==
    /\ CanBegin(r)
    /\ uuid + UuidsOwed < MaxUuid
    /\ \E in \in inputs :
         LET rec == [Idle EXCEPT !.op = "register", !.email = in.email,
                                 !.password = in.password,
                                 !.fullName = in.fullName, !.role = in.role]
             chk == RegisterPrecheck(in.email, in.password, in.fullName)
         IN Start(r, IF chk = "pass" THEN [rec EXCEPT !.pc = "findUser"]
                     ELSE [rec EXCEPT !.pc = "done", !.res = "InvalidRequest",
                                      !.error = chk])
    /\ UNCHANGED identity
    /\ UNCHANGED ledger
    /\ UNCHANGED chat

\* prisma.users.findUnique({ where: { email } }); then the salt, the hash
\* and the confirmation token.
RegisterFind(r) ==
    /\ req[r].op = "register" /\ req[r].pc = "findUser"
    /\ IF UserExists(users, req[r].email)
       THEN /\ Answer(r, "InvalidRequest", "Email already registered")
            /\ UNCHANGED uuid
       ELSE /\ uuid' = uuid + 1
            /\ \E salt \in Salts :
                 req' = [req EXCEPT ![r].pc = "createUser", ![r].salt = salt,
                                    ![r].uuid = uuid + 1]
    /\ UNCHANGED <<users, sessions, loginHistory, pre>>
    /\ UNCHANGED ledger
    /\ UNCHANGED chat

\* data of prisma.users.create in POST /api/auth/register
NewUser(id, rec) ==
    [Id |-> id, email |-> rec.email, fullName |-> rec.fullName,
     passwordHash |-> pbkdf2Sync(rec.password, rec.salt),
     passwordSalt |-> rec.salt, role |-> RoleOf(rec.role),
     emailConfirmed |-> FALSE, confirmationToken |-> rec.uuid,
     resetPasswordToken |-> NoUuid, resetPasswordExpiry |-> NoTime,
     lastLoginDate |-> NoTime]

\* prisma.users.create: the unique index on Users.email rejects a second
\* row for the address, and the catch answers 500.
RegisterCreate(r) ==
    /\ req[r].op = "register" /\ req[r].pc = "createUser"
    /\ IF UserExists(users, req[r].email)
       THEN /\ Answer(r, "Internal", "Internal server error")
            /\ UNCHANGED users
       ELSE /\ users' = users \cup {NewUser(newUserId(users), req[r])}
            /\ req' = [req EXCEPT ![r].pc = "history",
                                  ![r].userId = newUserId(users)]
    /\ UNCHANGED <<sessions, loginHistory, uuid, pre>>
    /\ UNCHANGED ledger
    /\ UNCHANGED chat

\* prisma.userLoginHistory.create
RegisterHistory(r) ==
    /\ req[r].op = "register" /\ req[r].pc = "history"
    /\ loginHistory' = loginHistory \cup
          {[userId |-> req[r].userId, successful |-> TRUE,
            failureReason |-> "Registration successful"]}
    /\ Goto(r, "sendEmail")
    /\ UNCHANGED <<users, sessions, uuid, pre>>
    /\ UNCHANGED ledger
    /\ UNCHANGED chat

\* A handler that answers 500 when the email could not be sent.
AfterEmailOrFail(emailSent, kind) == IF emailSent THEN kind ELSE "Internal"

\* The answer of a handler after sendEmail returned: emailSent is logged,
\* or not looked at.
AfterEmail(emailSent, kind) == kind

\* src/lib/email.ts sendEmail: transporter.sendMail sends the email or
\* throws, and sendEmail returns true or, from its catch, false.
sendEmail == BOOLEAN

RegisterSendEmail(r) ==
    /\ req[r].op = "register" /\ req[r].pc = "sendEmail"
    /\ \E emailSent \in sendEmail :
         req' = [req EXCEPT ![r].pc = "done", ![r].emailSent = emailSent,
                            ![r].res = AfterEmail(emailSent, "Created")]
    /\ UNCHANGED <<pre>>
    /\ UNCHANGED identity
    /\ UNCHANGED ledger
    /\ UNCHANGED chat

(***************************************************************************)
(* POST /api/auth/login, with JWT_SECRET configured.                       *)
(***************************************************************************)
LoginBegin(r, inputs) ==
    /\ CanBegin(r)
    /\ \E in \in inputs :
         LET rec == [Idle EXCEPT !.op = "login", !.email = in.email,
                                 !.password = in.password]
         IN Start(r, IF in.email = NoEmail \/ in.password = ""
                     THEN [rec EXCEPT !.pc = "done", !.res = "InvalidRequest",
                              !.error = "Email and password are required"]
                     ELSE [rec EXCEPT !.pc = "findUser"])
    /\ UNCHANGED identity
    /\ UNCHANGED ledger
    /\ UNCHANGED chat

\* A check that looks at the password only.
LoginCheckPasswordOnly(user, password) ==
    IF pbkdf2Sync(password, user.passwordSalt) # user.passwordHash
    THEN "Invalid credentials"
    ELSE "pass"

\* The checks of the user row: the confirmation of the address, then the
\* password.
LoginCheck(user, password) ==
    IF ~user.emailConfirmed THEN "Email not confirmed"
    ELSE IF pbkdf2Sync(password, user.passwordSalt) # user.passwordHash
    THEN "Invalid credentials"
    ELSE "pass"

\* prisma.users.findUnique({ where: { email } }), the checks and jwt.sign
LoginFind(r) ==
    /\ req[r].op = "login" /\ req[r].pc = "findUser"
    /\ IF ~UserExists(users, req[r].email)
       THEN Answer(r, "Unauthorized", "Invalid credentials")
       ELSE LET user == UserRow(users, req[r].email)
                chk == LoginCheck(user, req[r].password)
            IN IF chk # "pass" THEN Answer(r, "Unauthorized", chk)
               ELSE req' = [req EXCEPT ![r].pc = "createSession",
                                       ![r].userId = user.Id,
                                       ![r].jwt = jwtSign(user, clock)]
    /\ UNCHANGED <<pre>>
    /\ UNCHANGED identity
    /\ UNCHANGED ledger
    /\ UNCHANGED chat

\* prisma.userSessions.create.  UserSessions.token is unique: a token that
\* a session holds already is refused, and the catch around the three
\* statements answers 200 with the token, skipping the other two.  (The
\* tokens of the modelled users fit the column's 255 characters.)
LoginCreateSession(r) ==
    /\ req[r].op = "login" /\ req[r].pc = "createSession"
    /\ IF \E s \in sessions : s.token = req[r].jwt
       THEN /\ Answer(r, "OK", "")
            /\ UNCHANGED sessions
       ELSE /\ sessions' = sessions \cup
                  {[userId |-> req[r].userId, token |-> req[r].jwt]}
            /\ req' = [req EXCEPT ![r].pc = "updateLogin",
                                  ![r].now = clock]
    /\ UNCHANGED <<users, loginHistory, uuid, pre>>
    /\ UNCHANGED ledger
    /\ UNCHANGED chat

\* prisma.users.update({ data: { lastLoginDate: new Date() } })
LoginUpdate(r) ==
    /\ req[r].op = "login" /\ req[r].pc = "updateLogin"
    /\ users' = {IF u.Id = req[r].userId
                 THEN [u EXCEPT !.lastLoginDate = req[r].now] ELSE u
                 : u \in users}
    /\ Goto(r, "history")
    /\ UNCHANGED <<sessions, loginHistory, uuid, pre>>
    /\ UNCHANGED ledger
    /\ UNCHANGED chat

\* prisma.userLoginHistory.create, and the response with the token
LoginHistory(r) ==
    /\ req[r].op = "login" /\ req[r].pc = "history"
    /\ loginHistory' = loginHistory \cup
          {[userId |-> req[r].userId, successful |-> TRUE,
            failureReason |-> Null]}
    /\ Answer(r, "OK", "")
    /\ UNCHANGED <<users, sessions, uuid, pre>>
    /\ UNCHANGED ledger
    /\ UNCHANGED chat

(***************************************************************************)
(* GET /api/auth/verify-email?token=                                       *)
(***************************************************************************)
VerifyEmailBegin(r, inputs) ==
    /\ CanBegin(r)
    /\ \E in \in inputs :
         LET rec == [Idle EXCEPT !.op = "verifyEmail", !.uuid = in.token]
         IN Start(r, IF in.token = NoUuid
                     THEN [rec EXCEPT !.pc = "done", !.res = "InvalidRequest",
                              !.error = "Confirmation token is required"]
                     ELSE [rec EXCEPT !.pc = "findUser"])
    /\ UNCHANGED identity
    /\ UNCHANGED ledger
    /\ UNCHANGED chat

\* prisma.users.findFirst({ where: { confirmationToken: token,
\*                                   emailConfirmed: false } })
findUnconfirmed(us, token) ==
    {u \in us : u.confirmationToken = token /\ ~u.emailConfirmed}

VerifyEmailFind(r) ==
    /\ req[r].op = "verifyEmail" /\ req[r].pc = "findUser"
    /\ IF findUnconfirmed(users, req[r].uuid) = {}
       THEN Answer(r, "InvalidRequest",
                   "Invalid or expired confirmation token")
       ELSE \E user \in findUnconfirmed(users, req[r].uuid) :
              req' = [req EXCEPT ![r].pc = "update", ![r].userId = user.Id]
    /\ UNCHANGED <<pre>>
    /\ UNCHANGED identity
    /\ UNCHANGED ledger
    /\ UNCHANGED chat

\* An update that keeps the confirmation token in the row.
ConfirmKeepingToken(u) == [u EXCEPT !.emailConfirmed = TRUE]

\* data: { emailConfirmed: true, confirmationToken: null }
Confirm(u) ==
    [u EXCEPT !.emailConfirmed = TRUE, !.confirmationToken = NoUuid]

\* prisma.users.update({ where: { Id: user.Id }, data })
VerifyEmailUpdate(r) ==
    /\ req[r].op = "verifyEmail" /\ req[r].pc = "update"
    /\ users' = {IF u.Id = req[r].userId THEN Confirm(u) ELSE u : u \in users}
    /\ Answer(r, "OK", "")
    /\ UNCHANGED <<sessions, loginHistory, uuid, pre>>
    /\ UNCHANGED ledger
    /\ UNCHANGED chat

(***************************************************************************)
(* POST /api/auth/request-reset                                            *)
(***************************************************************************)
RequestResetBegin(r, inputs) ==
    /\ CanBegin(r)
    /\ uuid + UuidsOwed < MaxUuid
    /\ \E in \in inputs :
         LET rec == [Idle EXCEPT !.op = "requestReset", !.email = in.email]
         IN Start(r, IF in.email = NoEmail
                     THEN [rec EXCEPT !.pc = "done", !.res = "InvalidRequest",
                                      !.error = "Email is required"]
                     ELSE [rec EXCEPT !.pc = "findUser"])
    /\ UNCHANGED identity
    /\ UNCHANGED ledger
    /\ UNCHANGED chat

\* prisma.users.findUnique({ where: { email } }); then the reset token and
\* its expiry, Date.now() + 60 * 60 * 1000.
RequestResetFind(r) ==
    /\ req[r].op = "requestReset" /\ req[r].pc = "findUser"
    /\ IF ~UserExists(users, req[r].email)
       THEN /\ Answer(r, "NotFound", "User not found")
            /\ UNCHANGED uuid
       ELSE /\ uuid' = uuid + 1
            /\ req' = [req EXCEPT ![r].pc = "update",
                          ![r].userId = UserRow(users, req[r].email).Id,
                          ![r].uuid = uuid + 1,
                          ![r].now = clock + ResetTtl]
    /\ UNCHANGED <<users, sessions, loginHistory, pre>>
    /\ UNCHANGED ledger
    /\ UNCHANGED chat

\* prisma.users.update({ data: { resetPasswordToken, resetPasswordExpiry } })
RequestResetUpdate(r) ==
    /\ req[r].op = "requestReset" /\ req[r].pc = "update"
    /\ users' = {IF u.Id = req[r].userId
                 THEN [u EXCEPT !.resetPasswordToken = req[r].uuid,
                                !.resetPasswordExpiry = req[r].now]
                 ELSE u : u \in users}
    /\ Goto(r, "sendEmail")
    /\ UNCHANGED <<sessions, loginHistory, uuid, pre>>
    /\ UNCHANGED ledger
    /\ UNCHANGED chat

\* await sendEmail(...): what it returns is not looked at.
RequestResetSendEmail(r) ==
    /\ req[r].op = "requestReset" /\ req[r].pc = "sendEmail"
    /\ \E emailSent \in sendEmail :
         req' = [req EXCEPT ![r].pc = "done", ![r].emailSent = emailSent,
                            ![r].res = AfterEmail(emailSent, "OK")]
    /\ UNCHANGED <<pre>>
    /\ UNCHANGED identity
    /\ UNCHANGED ledger
    /\ UNCHANGED chat

(***************************************************************************)
(* POST /api/auth/reset-password                                           *)
(***************************************************************************)
\* The checks that precede the query.
ResetPasswordPrecheck(token, newPassword) ==
    IF token = NoUuid \/ newPassword = ""
    THEN "Token and new password are required"
    ELSE IF Len(newPassword) < 8
    THEN "Password must be at least 8 characters long"
    ELSE "pass"

\* The query is built with new Date() before it is awaited.
ResetPasswordBegin(r, inputs) ==
    /\ CanBegin(r)
    /\ \E in \in inputs :
         LET rec == [Idle EXCEPT !.op = "resetPassword", !.uuid = in.token,
                                 !.password = in.newPassword]
             chk == ResetPasswordPrecheck(in.token, in.newPassword)
         IN Start(r, IF chk = "pass"
                     THEN [rec EXCEPT !.pc = "findUser", !.now = clock]
                     ELSE [rec EXCEPT !.pc = "done", !.res = "InvalidRequest",
                                      !.error = chk])
    /\ UNCHANGED identity
    /\ UNCHANGED ledger
    /\ UNCHANGED chat

\* A lookup that does not look at the expiry.
findByResetTokenAnyAge(us, token, now) ==
    {u \in us : u.resetPasswordToken = token}

\* prisma.users.findFirst({ where: { resetPasswordToken: token,
\*                                   resetPasswordExpiry: { gt: now } } })
findByResetToken(us, token, now) ==
    {u \in us : u.resetPasswordToken = token /\ u.resetPasswordExpiry > now}

\* The lookup; then the new salt and hash.
ResetPasswordFind(r) ==
    /\ req[r].op = "resetPassword" /\ req[r].pc = "findUser"
    /\ IF findByResetToken(users, req[r].uuid, req[r].now) = {}
       THEN Answer(r, "InvalidRequest", "Invalid or expired reset token")
       ELSE \E user \in findByResetToken(users, req[r].uuid, req[r].now) :
            \E salt \in Salts :
              req' = [req EXCEPT ![r].pc = "update", ![r].userId = user.Id,
                                 ![r].salt = salt]
    /\ UNCHANGED <<pre>>
    /\ UNCHANGED identity
    /\ UNCHANGED ledger
    /\ UNCHANGED chat

\* data: { passwordHash, passwordSalt, resetPasswordToken: null,
\*         resetPasswordExpiry: null }
ResetPasswordUpdate(r) ==
    /\ req[r].op = "resetPassword" /\ req[r].pc = "update"
    /\ users' = {IF u.Id = req[r].userId
                 THEN [u EXCEPT !.passwordHash =
                                    pbkdf2Sync(req[r].password, req[r].salt),
                                !.passwordSalt = req[r].salt,
                                !.resetPasswordToken = NoUuid,
                                !.resetPasswordExpiry = NoTime]
                 ELSE u : u \in users}
    /\ Goto(r, "history")
    /\ UNCHANGED <<sessions, loginHistory, uuid, pre>>
    /\ UNCHANGED ledger
    /\ UNCHANGED chat

\* prisma.userLoginHistory.create, and the response
ResetPasswordHistory(r) ==
    /\ req[r].op = "resetPassword" /\ req[r].pc = "history"
    /\ loginHistory' = loginHistory \cup
          {[userId |-> req[r].userId, successful |-> TRUE,
            failureReason |-> "Password reset successful"]}
    /\ Answer(r, "OK", "")
    /\ UNCHANGED <<users, sessions, uuid, pre>>
    /\ UNCHANGED ledger
    /\ UNCHANGED chat

(***************************************************************************)
(* Time passes.                                                            *)
(***************************************************************************)
Tick ==
    /\ clock < MaxClock
    /\ clock' = clock + 1
    /\ UNCHANGED <<conversations, messages, req, pre>>
    /\ UNCHANGED ledger
    /\ UNCHANGED identity

\* Time passes between the statements of the identity store: a second,
\* or the hour a reset token lasts.  Elapsed(t) is the number of times it
\* has passed.
Elapsed(t) == (t \div ResetTtl) + ((t % ResetTtl) \div 1000)

Elapse ==
    /\ Elapsed(clock) < MaxElapse
    /\ \E d \in {1000, ResetTtl} : clock' = clock + d
    /\ UNCHANGED <<conversations, messages, req, pre>>
    /\ UNCHANGED ledger
    /\ UNCHANGED identity

(***************************************************************************)
(* The answered requests leave: their slots are free again.                *)
(***************************************************************************)
Return ==
    /\ Quiescent /\ ~AllIdle
    /\ req' = [r \in Slots |-> Idle]
    /\ pre' = Snapshot(Answered(req[FirstSlot]))
    /\ UNCHANGED <<bids, products>>
    /\ UNCHANGED chat
    /\ UNCHANGED identity

(***************************************************************************)
(* The system.                                                             *)
(***************************************************************************)
\* Two products exist: p1 of the client c1, p2 of the upholsterer u1 (any
\* authenticated user may create a product); no bid has been placed.
Init ==
    /\ bids = {}
    /\ products = [p \in {"p1", "p2"} |->
                     [status |-> "ai-generated",
                      creatorId |-> IF p = "p1" THEN "c1" ELSE "u1",
                      manufacturerId |-> Null]]
    /\ conversations = {}
    /\ messages = {}
    /\ clock = 0
    /\ users = {Registered(u) : u \in Users}
    /\ sessions = {}
    /\ loginHistory = {}
    /\ uuid = 0
    /\ req = [r \in Slots |-> Idle]
    /\ pre = Snapshot(NoCall)

\* One request at a time, every request of the input sets.
Next ==
    \/ CreateBidBegin(FirstSlot, CreateBidInputs)
    \/ CreateBidFindProduct(FirstSlot)
    \/ CreateBidFindExisting(FirstSlot)
    \/ CreateBidInsert(FirstSlot)
    \/ UpdateBidBegin(FirstSlot, UpdateBidInputs)
    \/ UpdateBidFind(FirstSlot)
    \/ UpdateBidUpdate(FirstSlot)
    \/ UpdateBidRejectOthers(FirstSlot)
    \/ DeleteBidBegin(FirstSlot, DeleteBidInputs)
    \/ DeleteBidFind(FirstSlot)
    \/ DeleteBidDelete(FirstSlot)
    \/ UpdateProductBegin(FirstSlot, UpdateProductInputs)
    \/ UpdateProductFind(FirstSlot)
    \/ UpdateProductUpdate(FirstSlot)
    \/ Return

Spec == Init /\ [][Next]_vars

\* Concurrent requests on the bid ledger, interleaved at their database
\* statements.
NextConc ==
    \E r \in Slots :
        \/ CreateBidBegin(r, CreateBidRace)
        \/ CreateBidFindProduct(r)
        \/ CreateBidFindExisting(r)
        \/ CreateBidInsert(r)
        \/ UpdateBidBegin(r, UpdateBidRace)
        \/ UpdateBidFind(r)
        \/ UpdateBidUpdate(r)
        \/ UpdateBidRejectOthers(r)
        \/ DeleteBidBegin(r, DeleteBidRace)
        \/ DeleteBidFind(r)
        \/ DeleteBidDelete(r)
        \/ Return

SpecConc == Init /\ [][NextConc]_vars

\* The conversation log, one request at a time, every request of the input
\* sets, the clock advancing at any moment.
NextChat ==
    \/ CreateConversationBegin(FirstSlot, CreateConversationInputs)
    \/ CreateConversationCreate(FirstSlot)
    \/ CreateConversationMessage(FirstSlot)
    \/ AppendMessageBegin(FirstSlot, AppendMessageInputs)
    \/ AppendMessageFind(FirstSlot)
    \/ AppendMessageCreate(FirstSlot)
    \/ AppendMessageResume(FirstSlot)
    \/ AppendMessageTouch(FirstSlot)
    \/ ListMessagesBegin(FirstSlot, ListMessagesInputs)
    \/ ListMessagesFind(FirstSlot)
    \/ ListMessagesFindMany(FirstSlot)
    \/ DeleteConversationBegin(FirstSlot, DeleteConversationInputs)
    \/ DeleteConversationFind(FirstSlot)
    \/ DeleteConversationMessages(FirstSlot)
    \/ DeleteConversationDelete(FirstSlot)
    \/ Tick
    \/ Return

SpecChat == Init /\ [][NextChat]_vars

\* Concurrent requests on one conversation: it is created, then messages
\* are appended to it and it is deleted by requests that interleave at
\* their database statements.
CreateConversationRace ==
    [token : {"c1"}, initialMessage : {"hello"}]
AppendMessageRace ==
    [id : {1}, content : {"hi", ""}, isUser : {Undefined}]
DeleteConversationRace ==
    [token : {"c1", "u1"}, id : {1}]

NextChatConc ==
    \/ CreateConversationBegin(FirstSlot, CreateConversationRace)
    \/ CreateConversationCreate(FirstSlot)
    \/ CreateConversationMessage(FirstSlot)
    \/ \E r \in Slots :
          \/ AppendMessageBegin(r, AppendMessageRace)
          \/ AppendMessageFind(r)
          \/ AppendMessageCreate(r)
          \/ AppendMessageResume(r)
          \/ AppendMessageTouch(r)
          \/ DeleteConversationBegin(r, DeleteConversationRace)
          \/ DeleteConversationFind(r)
          \/ DeleteConversationMessages(r)
          \/ DeleteConversationDelete(r)
    \/ Return

SpecChatConc == Init /\ [][NextChatConc]_vars

\* The requests to the identity store.  "short" is a password of fewer
\* than eight characters, "" a body without the field, the address with
\* a tab one that the format check refuses; token 0 is a
\* request without token, a token not yet made one that no row holds.
\* The visitor who registers logs in with every password, the user
\* registered before with a password that was never that user's.
RegisterInputs ==
    [email : {NewEmail, EmailOf("c1"), NoDotEmail, NoEmail},
     password : {"password1", "short", ""}, fullName : {"A", ""},
     role : {Undefined}]
    \cup [email : {<<"n", "\t", "@", "x", ".", "i", "o">>},
          password : {"password1"}, fullName : {"A"}, role : {Undefined}]
LoginInputs ==
    [email : {NewEmail, NoEmail},
     password : {"password1", "password2", ""}]
    \cup [email : {EmailOf("c1")}, password : {"password3"}]
VerifyEmailInputs == [token : {NoUuid} \cup Uuids]
RequestResetInputs == [email : {NewEmail, EmailOf("c1"), NoDotEmail, NoEmail}]
ResetPasswordInputs ==
    [token : {NoUuid} \cup Uuids, newPassword : {"password2", "short", ""}]

\* The identity store, one request at a time, the clock advancing at any
\* moment.
NextAuth ==
    \/ RegisterBegin(FirstSlot, RegisterInputs)
    \/ RegisterFind(FirstSlot)
    \/ RegisterCreate(FirstSlot)
    \/ RegisterHistory(FirstSlot)
    \/ RegisterSendEmail(FirstSlot)
    \/ LoginBegin(FirstSlot, LoginInputs)
    \/ LoginFind(FirstSlot)
    \/ LoginCreateSession(FirstSlot)
    \/ LoginUpdate(FirstSlot)
    \/ LoginHistory(FirstSlot)
    \/ VerifyEmailBegin(FirstSlot, VerifyEmailInputs)
    \/ VerifyEmailFind(FirstSlot)
    \/ VerifyEmailUpdate(FirstSlot)
    \/ RequestResetBegin(FirstSlot, RequestResetInputs)
    \/ RequestResetFind(FirstSlot)
    \/ RequestResetUpdate(FirstSlot)
    \/ RequestResetSendEmail(FirstSlot)
    \/ ResetPasswordBegin(FirstSlot, ResetPasswordInputs)
    \/ ResetPasswordFind(FirstSlot)
    \/ ResetPasswordUpdate(FirstSlot)
    \/ ResetPasswordHistory(FirstSlot)
    \/ Elapse
    \/ Return

SpecAuth == Init /\ [][NextAuth]_vars

\* Concurrent registrations, interleaved at their database statements.
RegisterRace ==
    [email : {NewEmail, EmailOf("c1")}, password : {"password1", "password2"},
     fullName : {"A"}, role : {Undefined}]

NextAuthConc ==
    \/ \E r \in Slots :
          \/ RegisterBegin(r, RegisterRace)
          \/ RegisterFind(r)
          \/ RegisterCreate(r)
          \/ RegisterHistory(r)
          \/ RegisterSendEmail(r)
    \/ Return

SpecAuthConc == Init /\ [][NextAuthConc]_vars

\* The requests to the product catalog: "" is a body without title, "p9"
\* the id of no product.
CreateProductInputs ==
    [token : Users, title : {"pouf", ""}, description : {"soft"},
     status : {Undefined, "completed"}]
    \cup [token : BadTokens, title : {"pouf"}, description : {"soft"},
          status : {Undefined}]
DeleteProductInputs ==
    [token : Users, productId : {ProductId(i) : i \in 1..MaxProducts}
                                \cup {"p9"}]
    \cup [token : BadTokens, productId : {"p1"}]
CatalogBidInputs ==
    [token : {"u2"}, productId : {"p1", "p3"}, amount : {1},
     notes : {Undefined}]

\* The product catalog, one request at a time, with the bids that refer
\* to its products.
NextCatalog ==
    \/ CreateProductBegin(FirstSlot, CreateProductInputs)
    \/ CreateProductInsert(FirstSlot)
    \/ UpdateProductBegin(FirstSlot, UpdateProductInputs)
    \/ UpdateProductFind(FirstSlot)
    \/ UpdateProductUpdate(FirstSlot)
    \/ DeleteProductBegin(FirstSlot, DeleteProductInputs)
    \/ DeleteProductFind(FirstSlot)
    \/ DeleteProductDelete(FirstSlot)
    \/ CreateBidBegin(FirstSlot, CatalogBidInputs)
    \/ CreateBidFindProduct(FirstSlot)
    \/ CreateBidFindExisting(FirstSlot)
    \/ CreateBidInsert(FirstSlot)
    \/ Return

SpecCatalog == Init /\ [][NextCatalog]_vars

\* A bid placed while the product's creator deletes the product: the
\* requests interleave at their database statements.
NextCatalogConc ==
    \E r \in Slots :
        \/ CreateBidBegin(r, CreateBidRace)
        \/ CreateBidFindProduct(r)
        \/ CreateBidFindExisting(r)
        \/ CreateBidInsert(r)
        \/ DeleteProductBegin(r, [token : {"c1", "u1"}, productId : {"p1"}])
        \/ DeleteProductFind(r)
        \/ DeleteProductDelete(r)
        \/ Return

SpecCatalogConc == Init /\ [][NextCatalogConc]_vars

\* The foreign key of Bids.productId: every bid is a bid on a product.
BidsReferToProducts == \A b \in bids : b.productId \in DOMAIN products

\* Every operation that requires a token, called by a user who may carry
\* it out, without token and with each token that does not verify.
GateTokens(holders) == holders \cup {MissingToken} \cup UnverifiableTokens

CreateProductGate ==
    [token : GateTokens({"c1"}), title : {"pouf"}, description : {"soft"},
     status : {Undefined}]
UpdateProductGate ==
    [token : GateTokens({"c1"}), productId : {"p1"}, status : {"completed"}]
DeleteProductGate == [token : GateTokens({"c1"}), productId : {"p3"}]
CreateBidGate ==
    [token : GateTokens({"u2"}), productId : {"p1", "p2"}, amount : {1},
     notes : {Undefined}]
UpdateBidGate ==
    [token : GateTokens({"c1", "u1"}), id : {1},
     body : {[amount |-> NoAmount, notes |-> Undefined,
              status |-> "accepted"]}]
DeleteBidGate == [token : GateTokens({"u2"}), id : BidIds]
DeleteConversationGate == [token : GateTokens({"c1"}), id : {1}]
ListConversationsGate == [token : GateTokens({"c1"}), userId : {"", "c1"}]

NextGate ==
    \/ CreateProductBegin(FirstSlot, CreateProductGate)
    \/ CreateProductInsert(FirstSlot)
    \/ UpdateProductBegin(FirstSlot, UpdateProductGate)
    \/ UpdateProductFind(FirstSlot)
    \/ UpdateProductUpdate(FirstSlot)
    \/ DeleteProductBegin(FirstSlot, DeleteProductGate)
    \/ DeleteProductFind(FirstSlot)
    \/ DeleteProductDelete(FirstSlot)
    \/ CreateBidBegin(FirstSlot, CreateBidGate)
    \/ CreateBidFindProduct(FirstSlot)
    \/ CreateBidFindExisting(FirstSlot)
    \/ CreateBidInsert(FirstSlot)
    \/ UpdateBidBegin(FirstSlot, UpdateBidGate)
    \/ UpdateBidFind(FirstSlot)
    \/ UpdateBidUpdate(FirstSlot)
    \/ UpdateBidRejectOthers(FirstSlot)
    \/ DeleteBidBegin(FirstSlot, DeleteBidGate)
    \/ DeleteBidFind(FirstSlot)
    \/ DeleteBidDelete(FirstSlot)
    \/ CreateConversationBegin(FirstSlot, CreateConversationRace)
    \/ CreateConversationCreate(FirstSlot)
    \/ CreateConversationMessage(FirstSlot)
    \/ DeleteConversationBegin(FirstSlot, DeleteConversationGate)
    \/ DeleteConversationFind(FirstSlot)
    \/ DeleteConversationMessages(FirstSlot)
    \/ DeleteConversationDelete(FirstSlot)
    \/ ListConversationsBegin(FirstSlot, ListConversationsGate)
    \/ ListConversationsFindMany(FirstSlot)
    \/ Return

SpecGate == Init /\ [][NextGate]_vars

(***************************************************************************)
(* Properties.                                                             *)
(***************************************************************************)
\* The request a slot has answered, and the one request of the sequential
\* specification.
Done(r) == req[r].pc = "done"
call == req[FirstSlot]
caller == verifyToken(call.token).userId

Accepted(bs, pid) == {b \in BidsOf(bs, pid) : b.status = "accepted"}
Statuses(bs) == {[Id |-> b.Id, status |-> b.status] : b \in bs}

\* The target of an updateBid or deleteBid request, as it was when the
\* request began.
TargetExisted(c) == BidExists(pre.bids, c.id)
Target(c) == BidRow(pre.bids, c.id)
TargetCreator(c) == pre.products[Target(c).productId].creatorId

\* The body of a createBid request gives no amount, or the amount zero.
NoValidAmount(c) == c.amount = NoAmount \/ c.amount = 0

\* User uid had a bid on product pid in the table bs.
HasBid(bs, pid, uid) ==
    \E b \in bs : b.productId = pid /\ b.upholstererId = uid

\* C1: in every reachable state, whatever the interleaving of createBid,
\* updateBid and deleteBid, each product has at most one accepted bid.
AtMostOneAcceptedBid ==
    \A pid \in DOMAIN products : Cardinality(Accepted(bids, pid)) <= 1

\* Two requests of the creator, each accepting a different bid (of a
\* different upholsterer) of the same product, have run concurrently and
\* both have been answered 200.
AcceptRaceOver(r, s) ==
    /\ r # s /\ Done(r) /\ Done(s)
    /\ req[r].op = "updateBid" /\ req[s].op = "updateBid"
    /\ req[r].res = "OK" /\ req[s].res = "OK"
    /\ req[r].status = "accepted" /\ req[s].status = "accepted"
    /\ TargetExisted(req[r]) /\ TargetExisted(req[s])
    /\ req[r].id # req[s].id
    /\ Target(req[r]).productId = Target(req[s]).productId
    /\ Target(req[r]).upholstererId # Target(req[s]).upholstererId
    /\ verifyToken(req[r].token).userId = TargetCreator(req[r])
    /\ verifyToken(req[s].token).userId = TargetCreator(req[s])

\* C2: once concurrent accepts of different bids of one product have all
\* completed, exactly one of their targets is accepted and every other bid
\* of the product is rejected.
ConcurrentAcceptsLeaveOneAccepted ==
    \A r, s \in Slots :
        AcceptRaceOver(r, s) =>
            LET pid == Target(req[r]).productId
            IN /\ Cardinality(Accepted(bids, pid)) = 1
               /\ \A b \in BidsOf(bids, pid) :
                     IF b.status = "accepted"
                     THEN b.Id \in {req[r].id, req[s].id}
                     ELSE b.status = "rejected"

\* An updateBid request with status=accepted, sent by the creator of the
\* target's product, has been answered 200 with no other request around.
AcceptCompleted ==
    /\ Done(FirstSlot) /\ call.op = "updateBid" /\ call.res = "OK"
    /\ call.status = "accepted"
    /\ TargetExisted(call) /\ caller = TargetCreator(call)

\* C3: after a successful accept by the product's creator, run alone, the
\* target is accepted, every other bid of the product is rejected whatever
\* its status was, and the bids of other products are as before.
AcceptAcceptsTargetAndRejectsSiblings ==
    AcceptCompleted =>
        LET pid == Target(call).productId
        IN /\ BidExists(bids, call.id)
           /\ BidRow(bids, call.id).status = "accepted"
           /\ \A b \in BidsOf(bids, pid) :
                 b.Id # call.id => b.status = "rejected"
           /\ {b \in bids : b.productId # pid}
                 = {b \in pre.bids : b.productId # pid}

\* C4: the accept transition is atomic: the table never shows the target
\* already accepted by a request that has yet to reject the siblings while a
\* sibling is not rejected.
AcceptIsAtomic ==
    \A r \in Slots :
        (req[r].op = "updateBid" /\ req[r].pc = "updateMany"
         /\ req[r].updateData.status = "accepted") =>
            \A b \in BidsOf(bids, req[r].bid.productId) :
                b.Id # req[r].id => b.status = "rejected"

\* C5: an updateBid request by anyone but the creator of the target's
\* product changes the status of no bid.
OnlyCreatorChangesStatus ==
    (/\ Done(FirstSlot) /\ call.op = "updateBid"
     /\ ~(TargetExisted(call) /\ caller = TargetCreator(call)))
        => Statuses(bids) = Statuses(pre.bids)

\* C6: updateBid by the bid's own upholsterer with a body that sets status,
\* and by the product's creator with a body that sets amount, fail
\* Unauthorized and change nothing.
OutOfScopeFieldIsUnauthorized ==
    (/\ Done(FirstSlot) /\ call.op = "updateBid" /\ TargetExisted(call)
     /\ \/ caller = Target(call).upholstererId /\ call.status # Undefined
        \/ caller = TargetCreator(call) /\ call.amount # NoAmount)
        => (call.res = "Unauthorized" /\ bids = pre.bids)

\* C7: there is at most one bid for any (upholsterer, product) pair.
OneBidPerUpholstererAndProduct ==
    \A b1, b2 \in bids :
        (b1.productId = b2.productId /\ b1.upholstererId = b2.upholstererId)
            => b1.Id = b2.Id

\* A createBid request, run alone, by a user who already had a bid on the
\* product, has been answered.
DuplicateCreateAnswered ==
    /\ Done(FirstSlot) /\ call.op = "createBid" /\ call.token \in Users
    /\ HasBid(pre.bids, call.productId, caller)

\* C8 as stated: a createBid by U on P, where U already has a bid on P,
\* always fails with Conflict and inserts no bid.
DuplicateCreateAlwaysConflict ==
    DuplicateCreateAnswered => (call.res = "Conflict" /\ bids = pre.bids)

\* C8, amended: such a createBid always fails and inserts no bid; it fails
\* with Conflict when its amount is not zero and P's status is
\* `ai-generated`, with InvalidRequest when the amount is zero or missing,
\* and with InvalidState when the amount is not zero and P's status is
\* another one.
DuplicateCreateFails ==
    DuplicateCreateAnswered =>
        /\ bids = pre.bids
        /\ call.res = (IF NoValidAmount(call) THEN "InvalidRequest"
                       ELSE IF pre.products[call.productId].status
                                # "ai-generated"
                       THEN "InvalidState"
                       ELSE "Conflict")

DuplicateCreateWitness ==
    /\ DuplicateCreateAnswered
    /\ call.res = "Conflict"
    /\ \E b \in pre.bids :
          /\ b.productId = call.productId /\ b.upholstererId = caller
          /\ b.status = "rejected"

\* A createBid request, run alone, by an upholsterer with no bid on the
\* product, which exists with status `ai-generated`, has been answered.
FreshCreateAnswered ==
    /\ Done(FirstSlot) /\ call.op = "createBid" /\ call.token \in Users
    /\ Role[call.token] = "upholsterer"
    /\ call.productId \in DOMAIN pre.products
    /\ pre.products[call.productId].status = "ai-generated"
    /\ ~HasBid(pre.bids, call.productId, caller)

\* The effect of a successful createBid: one more row, for the caller and
\* the product, pending; nothing else changed.
CreatedOneBid ==
    /\ call.res = "Created"
    /\ products = pre.products
    /\ \E b \in bids \ pre.bids :
          /\ bids = pre.bids \cup {b}
          /\ b.Id \notin {x.Id : x \in pre.bids}
          /\ b.productId = call.productId
          /\ b.upholstererId = caller
          /\ b.status = "pending"

\* C9 as stated: for every amount, createBid by an upholsterer without a
\* bid on an `ai-generated` product succeeds and inserts one pending bid.
FreshCreateSucceeds == FreshCreateAnswered => CreatedOneBid

\* C9, amended: the same for every amount that is given and not zero.
FreshCreateWithAmountSucceeds ==
    (FreshCreateAnswered /\ ~NoValidAmount(call)) => CreatedOneBid

FreshCreateWitness ==
    /\ FreshCreateAnswered /\ ~NoValidAmount(call) /\ call.res = "Created"
    /\ pre.bids # {}

\* A createBid request with a verified token has been answered, run alone.
CreateAnswered ==
    Done(FirstSlot) /\ call.op = "createBid" /\ call.token \in Users

\* The failure the claim gives for the request, in the order of the checks.
ExpectedCreateFailure ==
    IF Role[call.token] # "upholsterer" THEN "Unauthorized"
    ELSE IF call.productId \notin DOMAIN pre.products THEN "NotFound"
    ELSE IF pre.products[call.productId].status # "ai-generated"
    THEN "InvalidState"
    ELSE "none"

\* C10 as stated: createBid fails Unauthorized for a role other than
\* upholsterer, NotFound for a product that does not exist, InvalidState for
\* a product whose status is not `ai-generated`, and inserts nothing.
CreateFailsAsClaimed ==
    (CreateAnswered /\ ExpectedCreateFailure # "none")
        => (call.res = ExpectedCreateFailure /\ bids = pre.bids)

\* C10, amended: the NotFound and InvalidState answers are those of a
\* request that names a productId and a non-zero amount; without one of them
\* an upholsterer's request fails InvalidRequest before the product is
\* read.  In every one of these cases nothing is inserted.
CreateFailsInOrder ==
    (CreateAnswered /\ ExpectedCreateFailure # "none")
        => /\ bids = pre.bids
           /\ call.res =
                (IF ExpectedCreateFailure = "Unauthorized" THEN "Unauthorized"
                 ELSE IF call.productId = "" \/ NoValidAmount(call)
                 THEN "InvalidRequest"
                 ELSE ExpectedCreateFailure)

CreateFailsWitness ==
    /\ CreateAnswered /\ call.res = "InvalidState" /\ pre.bids # {}

\* An updateBid request with a verified token has been answered, run alone.
UpdateAnswered ==
    Done(FirstSlot) /\ call.op = "updateBid" /\ call.token \in Users

\* The body gives none of the fields the caller may change: amount and
\* notes for the bid's upholsterer, a non-empty status for the creator of
\* the bid's product.
NothingInScope(c) ==
    IF caller = Target(c).upholstererId
    THEN c.amount = NoAmount /\ c.notes = Undefined
    ELSE c.status \in {Undefined, ""}

\* The failure the claim gives for an updateBid request.
ExpectedUpdateFailure ==
    IF ~TargetExisted(call) THEN "NotFound"
    ELSE IF caller \notin {Target(call).upholstererId, TargetCreator(call)}
    THEN "Unauthorized"
    ELSE IF NothingInScope(call) THEN "InvalidRequest"
    ELSE "none"

\* C11: updateBid fails NotFound when the bid does not exist, Unauthorized
\* when the principal is neither the bid's upholsterer nor the creator of
\* its product, InvalidRequest when the body gives no field the caller may
\* change; in the three cases every bid is left as it was.
UpdateFailsAsClaimed ==
    (UpdateAnswered /\ ExpectedUpdateFailure # "none")
        => (call.res = ExpectedUpdateFailure /\ bids = pre.bids)

\* The bid's upholsterer asked for status=accepted only, with a sibling bid
\* on the product, and was answered InvalidRequest.
UpdateFailsWitness ==
    /\ UpdateAnswered /\ call.res = "InvalidRequest"
    /\ TargetExisted(call) /\ caller = Target(call).upholstererId
    /\ call.status = "accepted"
    /\ Cardinality(BidsOf(pre.bids, Target(call).productId)) = 2

\* C12: a bid whose status is accepted or rejected never returns to
\* pending.
StatusNeverReturnsToPending ==
    [][\A b \in bids : \A c \in bids' :
          (b.Id = c.Id /\ b.status \in {"accepted", "rejected"})
              => c.status # "pending"]_vars

\* C13: a rejected sibling of an accepted bid never becomes accepted.
RejectedSiblingNeverAccepted ==
    [][\A b \in bids : \A c \in bids' :
          (/\ b.Id = c.Id /\ b.status = "rejected"
           /\ \E a \in bids : /\ a.Id # b.Id /\ a.productId = b.productId
                               /\ a.status = "accepted")
              => c.status # "accepted"]_vars

\* A deleteBid request has been answered, run alone.
DeleteAnswered == Done(FirstSlot) /\ call.op = "deleteBid"

\* C14: deleteBid removes the bid, whatever its status, exactly when the
\* bid exists and the principal is its upholsterer or the creator of its
\* product, and then no other bid is changed; a missing bid fails NotFound
\* and any other principal fails Unauthorized, the ledger unchanged.
DeleteBidAsClaimed ==
    DeleteAnswered =>
        /\ products = pre.products
        /\ IF call.token \notin Users
           THEN call.res = "Unauthorized" /\ bids = pre.bids
           ELSE IF ~TargetExisted(call)
           THEN call.res = "NotFound" /\ bids = pre.bids
           ELSE IF caller \in {Target(call).upholstererId,
                               TargetCreator(call)}
           THEN call.res = "OK" /\ bids = pre.bids \ {Target(call)}
           ELSE call.res = "Unauthorized" /\ bids = pre.bids

\* The creator of a product has deleted its accepted bid; the rejected
\* sibling is still there.
DeleteBidWitness ==
    /\ DeleteAnswered /\ call.res = "OK" /\ TargetExisted(call)
    /\ Target(call).status = "accepted"
    /\ caller = TargetCreator(call) /\ caller # Target(call).upholstererId
    /\ \E b \in bids : b.status = "rejected"

\* C15: in every reachable state the status of every bid is one of
\* pending, accepted, rejected.
BidStatusInDomain ==
    \A b \in bids : b.status \in {"pending", "accepted", "rejected"}

\* The conversation log is as it was when the request began.
LogAsBefore ==
    conversations = pre.conversations /\ messages = pre.messages

\* A string field of a body that is missing or empty.
Empty(str) == str \in {Undefined, ""}

\* The conversation a request names, as it was when the request began.
ConvExisted(c) == \E x \in pre.conversations : x.Id = c.id
Conv(c) == CHOOSE x \in pre.conversations : x.Id = c.id

\* C16: after a successful deleteConversation of C neither C nor a message
\* of C exists, and the messages of the other conversations are untouched;
\* a listMessages of C that follows answers NotFound; and while the delete
\* is between its statements the tables show C with all its messages.
DeleteConversationCascades ==
    /\ (Done(FirstSlot) /\ call.op = "deleteConversation" /\ call.res = "OK")
          => /\ ~\E c \in conversations : c.Id = call.id
             /\ ~\E m \in messages : m.conversationId = call.id
             /\ messages =
                  {m \in pre.messages : m.conversationId # call.id}
             /\ conversations =
                  {c \in pre.conversations : c.Id # call.id}
    /\ (/\ Done(FirstSlot) /\ call.op = "listMessages"
        /\ pre.last.op = "deleteConversation" /\ pre.last.id = call.id)
          => call.res = "NotFound"
    /\ (call.op = "deleteConversation" /\ InFlight(FirstSlot))
          => LogAsBefore

\* A listMessages of a conversation deleted just before has answered
\* NotFound; the message of another conversation is still there.
DeleteConversationWitness ==
    /\ Done(FirstSlot) /\ call.op = "listMessages"
    /\ call.res = "NotFound"
    /\ pre.last.op = "deleteConversation" /\ pre.last.id = call.id
    /\ messages # {}

\* C17: deleteConversation succeeds only for a principal with a valid token
\* who is the conversation's user, or on an anonymous conversation; another
\* principal fails Unauthorized and a missing conversation NotFound, the
\* conversation and its messages remaining.
DeleteConversationAuthorized ==
    (Done(FirstSlot) /\ call.op = "deleteConversation") =>
        IF call.token \notin Users
        THEN call.res = "Unauthorized" /\ LogAsBefore
        ELSE IF ~ConvExisted(call)
        THEN call.res = "NotFound" /\ LogAsBefore
        ELSE IF Conv(call).userId \in {Null, call.token}
        THEN call.res = "OK"
        ELSE call.res = "Unauthorized" /\ LogAsBefore

\* A user has deleted an anonymous conversation.
DeleteAnonymousWitness ==
    /\ Done(FirstSlot) /\ call.op = "deleteConversation" /\ call.res = "OK"
    /\ call.token \in Users
    /\ ConvExisted(call) /\ Conv(call).userId = Null
    /\ \E m \in pre.messages : m.conversationId = call.id

\* C18: createConversation with a non-empty initialMessage creates, in one
\* atomic unit, a conversation whose userId is the principal's (null when
\* the token is absent or does not verify) and one message in it with that
\* content and isUser = true; with an empty or missing initialMessage it
\* fails InvalidRequest and creates nothing.
CreateConversationAsClaimed ==
    /\ (Done(FirstSlot) /\ call.op = "createConversation") =>
          IF Empty(call.content)
          THEN call.res = "InvalidRequest" /\ LogAsBefore
          ELSE /\ call.res = "Created"
               /\ \E c \in conversations \ pre.conversations :
                     /\ conversations = pre.conversations \cup {c}
                     /\ c.Id \notin {x.Id : x \in pre.conversations}
                     /\ c.userId = (IF call.token \in Users THEN call.token
                                    ELSE Null)
                     /\ \E m \in messages \ pre.messages :
                           /\ messages = pre.messages \cup {m}
                           /\ m.Id \notin {x.Id : x \in pre.messages}
                           /\ m.conversationId = c.Id
                           /\ m.content = call.content
                           /\ m.isUser = TRUE
    /\ (call.op = "createConversation" /\ InFlight(FirstSlot))
          => LogAsBefore

\* A request with a token that does not verify has created an anonymous
\* conversation next to an existing one.
CreateConversationWitness ==
    /\ Done(FirstSlot) /\ call.op = "createConversation"
    /\ call.res = "Created" /\ call.token = ForgedToken
    /\ pre.conversations # {}
    /\ \E c \in conversations : c.Id = call.id /\ c.userId = Null

\* C19: appendMessage fails NotFound when the conversation does not exist
\* and InvalidRequest when the content is empty, inserting nothing;
\* otherwise it inserts one message into the conversation and sets the
\* conversation's updatedAt to the time of the request, the two in one
\* atomic unit: until then the tables show neither.
AppendMessageAsClaimed ==
    /\ (Done(FirstSlot) /\ call.op = "appendMessage") =>
          IF ~ConvExisted(call)
          THEN call.res = "NotFound" /\ LogAsBefore
          ELSE IF Empty(call.content)
          THEN call.res = "InvalidRequest" /\ LogAsBefore
          ELSE /\ call.res = "Created"
               /\ \E m \in messages \ pre.messages :
                     /\ messages = pre.messages \cup {m}
                     /\ m.Id \notin {x.Id : x \in pre.messages}
                     /\ m.conversationId = call.id
                     /\ m.content = call.content
                     /\ m.isUser = (call.isUser # "false")
                     /\ \E t \in m.createdAt..clock :
                           conversations =
                              {IF c.Id = call.id
                               THEN [c EXCEPT !.updatedAt = t] ELSE c :
                               c \in pre.conversations}
    /\ (call.op = "appendMessage" /\ InFlight(FirstSlot)) => LogAsBefore

\* A message with isUser = false has been appended to a conversation last
\* updated before the request, and time passed between the insert and the
\* handler's reading of new Date().
AppendMessageWitness ==
    /\ Done(FirstSlot) /\ call.op = "appendMessage"
    /\ call.res = "Created" /\ call.isUser = "false"
    /\ ConvExisted(call) /\ Conv(call).updatedAt < clock
    /\ \E c \in conversations : c.Id = call.id /\ c.updatedAt = clock
    /\ \E m \in messages \ pre.messages : m.createdAt < clock

\* A listMessages with limit=1 and no `before` has been answered, right
\* after a successful appendMessage to the same conversation.
ListAfterAppendAnswered ==
    /\ Done(FirstSlot) /\ call.op = "listMessages"
    /\ call.limit = "1" /\ call.before = NoBefore
    /\ pre.last.op = "appendMessage" /\ pre.last.id = call.id

\* C20: a successful appendMessage(C, m), immediately followed by
\* listMessages(C, limit=1), returns exactly one message, with content m.
ListReturnsAppendedMessage ==
    ListAfterAppendAnswered =>
        /\ call.res = "OK"
        /\ Len(call.list) = 1
        /\ call.list[1].content = pre.last.content

\* A request of the bid ledger: createBid, updateBid or deleteBid.
BidOps == {"createBid", "updateBid", "deleteBid"}

\* The rows of bs as far as a bid's references go.
BidRefs(bs) ==
    {[Id |-> b.Id, productId |-> b.productId,
      upholstererId |-> b.upholstererId] : b \in bs}

\* A createBid request with a valid amount, by an upholsterer with no bid
\* on the product, has been answered; the product was `ai-generated` and
\* had an accepted bid when the request began.
CreateAfterAcceptAnswered ==
    /\ FreshCreateAnswered /\ ~NoValidAmount(call)
    /\ Accepted(pre.bids, call.productId) # {}

\* C28: no step of createBid, updateBid (the accept transition included)
\* or deleteBid changes a product's status, creatorId or manufacturerId,
\* or the productId or upholstererId of a bid that stays in the table; and
\* a createBid on a product that has an accepted bid, by an upholsterer
\* with no bid on it, succeeds while the product is `ai-generated`.
BidOpsLeaveProductsAlone ==
    [][/\ req'[FirstSlot].op \in BidOps =>
            /\ products' = products
            /\ \A b \in BidRefs(bids) : \A c \in BidRefs(bids') :
                   b.Id = c.Id => b = c
        /\ (CreateAfterAcceptAnswered => CreatedOneBid)']_vars

CreateAfterAcceptWitness ==
    /\ CreateAfterAcceptAnswered /\ call.res = "Created"
    /\ pre.products[call.productId].status = "ai-generated"
    /\ \E b \in bids : b.productId = call.productId /\ b.status = "accepted"

\* C29: in every reachable state every conversation has a message: a step
\* that adds a conversation adds a message of it, and a message leaves the
\* table only together with its conversation, and is never modified.
ConversationsHaveMessages ==
    [][/\ \A c \in conversations' : MessagesOf(messages', c.Id) # {}
       /\ \A c \in conversations' :
             ~ConvExists(conversations, c.Id) =>
                 MessagesOf(messages' \ messages, c.Id) # {}
       /\ \A m \in messages :
             m \in messages' \/ ~ConvExists(conversations', m.conversationId)
      ]_vars

\* A conversation has been deleted with its messages, and another one is
\* left with the message it was created with.
ConversationsHaveMessagesWitness ==
    /\ Done(FirstSlot) /\ call.op = "deleteConversation" /\ call.res = "OK"
    /\ MessagesOf(pre.messages, call.id) # {}
    /\ \E c \in conversations : MessagesOf(messages, c.Id) # {}

\* No message refers to a conversation that does not exist.
NoOrphanMessage ==
    \A m \in messages : ConvExists(conversations, m.conversationId)

\* Slot r has answered an appendMessage with content and slot s a
\* deleteConversation by the owner, both for a conversation that existed
\* when the two began, and the two requests overlapped.
AppendDeleteRaceOver(r, s) ==
    /\ r # s /\ Done(r) /\ Done(s)
    /\ req[r].op = "appendMessage" /\ Truthy(req[r].content)
    /\ req[s].op = "deleteConversation" /\ req[s].id = req[r].id
    /\ ConvExisted(req[s])
    /\ MayDeleteConversationOwnerOnly(Conv(req[s]),
                                      verifyToken(req[s].token).userId)

\* The message was inserted before the deletion and removed with the
\* conversation.
InsertedThenRemoved(r, s) ==
    /\ req[r].res = "Created" /\ req[s].res = "OK"
    /\ ~ConvExists(conversations, req[s].id)
    /\ MessagesOf(messages, req[s].id) = {}

\* The append failed and inserted nothing.
AppendFailed(r) ==
    /\ req[r].res # "Created"
    /\ MessagesOf(messages, req[r].id) \subseteq pre.messages

\* The message was inserted and the deletion failed: the conversation has
\* the messages it had and the new one.
DeletionFailed(r, s) ==
    /\ req[r].res = "Created" /\ req[s].res = "Internal"
    /\ conversations = {IF c.Id = req[r].id
                        THEN [c EXCEPT !.updatedAt = clock] ELSE c
                        : c \in pre.conversations}
    /\ pre.messages \subseteq messages
    /\ \E m \in messages \ pre.messages :
          /\ messages = pre.messages \cup {m}
          /\ m.conversationId = req[r].id /\ m.content = req[r].content

\* C30 as stated: when an appendMessage and a deleteConversation of the
\* same conversation overlap, no state has a message of a conversation
\* that does not exist, and either the message was inserted before the
\* deletion and removed with the conversation, or the append failed and
\* inserted nothing.
AppendOrDeleteWins ==
    /\ NoOrphanMessage
    /\ \A r, s \in Slots :
          AppendDeleteRaceOver(r, s) =>
              InsertedThenRemoved(r, s) \/ AppendFailed(r)

\* C30, amended: the same with a third outcome, the message inserted and
\* the deletion failed with the conversation and its messages in place.
AppendOrDeleteWinsOrDeletionFails ==
    /\ NoOrphanMessage
    /\ \A r, s \in Slots :
          AppendDeleteRaceOver(r, s) =>
              \/ InsertedThenRemoved(r, s)
              \/ AppendFailed(r)
              \/ DeletionFailed(r, s)

AppendDeleteRaceWitness ==
    \E r, s \in Slots :
        /\ AppendDeleteRaceOver(r, s) /\ AppendFailed(r)
        /\ req[r].res = "Internal" /\ req[s].res = "OK"
        /\ ~ConvExists(conversations, req[r].id)

\* The credentials of the users.
Credentials(us) ==
    {[Id |-> u.Id, passwordHash |-> u.passwordHash,
      passwordSalt |-> u.passwordSalt] : u \in us}

\* Slot r has answered a registration that created no user, for an
\* address that belongs to a user.
TakenEmailAnswered(r) ==
    /\ Done(r) /\ req[r].op = "register" /\ req[r].userId = ""
    /\ UserExists(users, req[r].email)

\* C21: a registration with an address that belongs to a user, a
\* registration that runs concurrently with another one of the same
\* address included, is answered 400 for every password and fullName; no
\* address has two users, and the users that existed are unchanged.
TakenEmailIs400 ==
    /\ \A r \in Slots : TakenEmailAnswered(r) => req[r].res = "InvalidRequest"
    /\ \A u, v \in users : u.email = v.email => u = v
    /\ pre.users \subseteq users

\* The user of a login's address, as the row was when the request began.
LoginUserExisted == UserExists(pre.users, call.email)
LoginUser == UserRow(pre.users, call.email)
RightPassword ==
    pbkdf2Sync(call.password, LoginUser.passwordSalt) = LoginUser.passwordHash

\* A login has been answered for the address of a user who existed.
LoginAnswered ==
    Done(FirstSlot) /\ call.op = "login" /\ LoginUserExisted

\* No token is issued for an address that is not confirmed, and a login
\* with the password of a user whose address is confirmed answers 200
\* with a token for that user.
TokenOnlyWhenConfirmed ==
    /\ (Done(FirstSlot) /\ call.op = "login" /\ call.jwt # NoJwt) =>
           LoginUserExisted /\ LoginUser.emailConfirmed
    /\ (LoginAnswered /\ LoginUser.emailConfirmed /\ RightPassword
        /\ call.password # "") =>
           /\ call.res = "OK"
           /\ [call.jwt EXCEPT !.iat = 0] = jwtSign(LoginUser, 0)

\* C22 as stated: as long as a registered user's address is not confirmed,
\* every login for it answers 401 "Email not confirmed"; once it is, the
\* login with the right password answers 200 with a token.
UnconfirmedLoginIs401 ==
    /\ TokenOnlyWhenConfirmed
    /\ (LoginAnswered /\ ~LoginUser.emailConfirmed) =>
           call.res = "Unauthorized" /\ call.error = "Email not confirmed"

\* C22, amended: the same for every login that gives a password; one that
\* gives none answers 400.
UnconfirmedLoginWithPasswordIs401 ==
    /\ TokenOnlyWhenConfirmed
    /\ (LoginAnswered /\ ~LoginUser.emailConfirmed) =>
           IF call.password = "" THEN call.res = "InvalidRequest"
           ELSE /\ call.res = "Unauthorized"
                /\ call.error = "Email not confirmed"

\* The visitor registered, confirmed the address and logged in.
LoginAfterConfirmationWitness ==
    /\ LoginAnswered /\ call.email = NewEmail /\ call.res = "OK"
    /\ call.jwt.userId = LoginUser.Id
    /\ \E h \in loginHistory :
          h.userId = LoginUser.Id
          /\ h.failureReason = "Registration successful"

\* The request of the first slot is answered, its email was to be sent
\* and sendEmail returned false.
SendFailed(op) ==
    /\ Done(FirstSlot) /\ call.op = op /\ call.userId # ""
    /\ call.res # "Internal" /\ ~call.emailSent

\* C23: when the confirmation email cannot be sent the registration still
\* answers 201 and the user row with its confirmation token is stored;
\* when the reset email cannot be sent request-reset still answers 200
\* and the reset token and its expiry are stored.
EmailFailureDoesNotFail ==
    /\ (Done(FirstSlot) /\ call.op \in {"register", "requestReset"}
        /\ call.userId # "" /\ ~call.emailSent) => call.res # "Internal"
    /\ SendFailed("register") =>
          /\ call.res = "Created"
          /\ \E u \in users \ pre.users :
                /\ users = pre.users \cup {u}
                /\ u.Id = call.userId /\ u.email = call.email
                /\ u.confirmationToken = call.uuid /\ call.uuid # NoUuid
    /\ SendFailed("requestReset") =>
          /\ call.res = "OK"
          /\ UserById(users, call.userId).resetPasswordToken = call.uuid
          /\ UserById(users, call.userId).resetPasswordExpiry = call.now
          /\ call.uuid # NoUuid /\ call.now # NoTime

EmailFailureWitness ==
    /\ SendFailed("requestReset") /\ call.res = "OK"
    /\ \E u \in users : u.email = NewEmail /\ u.Id = call.userId
    /\ \E h \in loginHistory : h.userId = call.userId

\* The users a reset-password request's token let in when it began: those
\* whose reset token it is, with an expiry later than the request's time.
ResetMatch ==
    {u \in pre.users : /\ call.uuid # NoUuid
                       /\ u.resetPasswordToken = call.uuid
                       /\ u.resetPasswordExpiry > call.now}

ResetAnswered == Done(FirstSlot) /\ call.op = "resetPassword"

\* C26: reset-password changes a password only for the user whose current
\* reset token the request gives, unexpired; with any other token it
\* answers 400 and changes no credential; on success it clears the reset
\* token and its expiry, so that no row holds the token afterwards.
ResetNeedsCurrentToken ==
    /\ (ResetAnswered /\ Credentials(users) # Credentials(pre.users)) =>
          call.res = "OK"
    /\ (ResetAnswered /\ call.res = "OK") =>
          \E u \in ResetMatch :
             /\ ResetMatch = {u}
             /\ users = (pre.users \ {u}) \cup
                   {[u EXCEPT !.passwordHash =
                                  pbkdf2Sync(call.password, call.salt),
                              !.passwordSalt = call.salt,
                              !.resetPasswordToken = NoUuid,
                              !.resetPasswordExpiry = NoTime]}
             /\ \A v \in users : v.resetPasswordToken # call.uuid
    /\ (ResetAnswered /\ ResetMatch = {}) =>
          call.res = "InvalidRequest" /\ users = pre.users

\* A reset with a token that a later request-reset had not replaced and
\* that had not expired, after the clock advanced.
ResetWitness ==
    /\ ResetAnswered /\ call.res = "OK" /\ clock > 0
    /\ \E u \in users : /\ u.Id = call.userId
                        /\ u.passwordHash.password = "password2"

VerifyAnswered == Done(FirstSlot) /\ call.op = "verifyEmail"

\* The users whose confirmation the request's token was when it began.
VerifyMatch ==
    {u \in pre.users : /\ call.uuid # NoUuid
                       /\ u.confirmationToken = call.uuid
                       /\ ~u.emailConfirmed}

\* verify-email succeeds only with the confirmation token of a user whose
\* address is not confirmed, confirms it and clears the token; with any
\* other token it answers 400 and changes nothing.
ConfirmationIsSingleUse ==
    /\ (VerifyAnswered /\ call.res = "OK") =>
          \E u \in VerifyMatch :
             /\ users = (pre.users \ {u}) \cup
                   {[u EXCEPT !.emailConfirmed = TRUE,
                              !.confirmationToken = NoUuid]}
             /\ \A v \in users : v.confirmationToken # call.uuid
    /\ (VerifyAnswered /\ VerifyMatch = {}) =>
          call.res = "InvalidRequest" /\ users = pre.users

\* C27: the confirmation token is good for one verify-email, which
\* confirms the address and clears the token, and no step of any
\* operation makes a confirmed address unconfirmed again.
ConfirmationIsMonotone ==
    [][/\ ConfirmationIsSingleUse'
       /\ \A u \in users : \A v \in users' :
             (u.Id = v.Id /\ u.emailConfirmed) => v.emailConfirmed]_vars

\* The visitor's address is confirmed, and a later verify-email with a
\* token already made is answered 400.
ConfirmationWitness ==
    /\ VerifyAnswered /\ call.res = "InvalidRequest"
    /\ call.uuid \in 1..uuid
    /\ \E u \in users : u.email = NewEmail /\ u.emailConfirmed

\* An updateProduct or deleteProduct by an authenticated user has been
\* answered.
ProductChangeAnswered ==
    /\ Done(FirstSlot) /\ call.op \in {"updateProduct", "deleteProduct"}
    /\ call.token \in Users

\* The effect of a successful createProduct: one more product, of the
\* caller; the others as they were.
CreatedOneProduct ==
    /\ call.productId \notin DOMAIN pre.products
    /\ DOMAIN products = DOMAIN pre.products \cup {call.productId}
    /\ products[call.productId].creatorId = caller
    /\ \A p \in DOMAIN pre.products : products[p] = pre.products[p]

\* createProduct stores the caller as creator; updateProduct and
\* deleteProduct change the catalog only for the product's creator,
\* answer Unauthorized to another user and NotFound for a missing
\* product, and then leave the catalog as it was.
OwnerGate ==
    /\ (Done(FirstSlot) /\ call.op = "createProduct"
        /\ call.res = "Created") => CreatedOneProduct
    /\ (ProductChangeAnswered /\ products # pre.products) =>
          /\ call.productId \in DOMAIN pre.products
          /\ pre.products[call.productId].creatorId = caller
          /\ \A p \in DOMAIN pre.products \ {call.productId} :
                p \in DOMAIN products /\ products[p] = pre.products[p]
    /\ (ProductChangeAnswered /\ call.productId \notin DOMAIN pre.products)
          => call.res = "NotFound" /\ products = pre.products
    /\ (ProductChangeAnswered /\ call.productId \in DOMAIN pre.products
        /\ pre.products[call.productId].creatorId # caller)
          => call.res = "Unauthorized" /\ products = pre.products

\* C24: the ownership gate of the product catalog holds after every step,
\* and no step of any operation changes the creatorId of a product.
ProductOwnershipGate ==
    [][/\ OwnerGate'
       /\ \A p \in DOMAIN products \cap DOMAIN products' :
             products'[p].creatorId = products[p].creatorId]_vars

\* A user deleted a product he had created, after another user's attempt
\* left it in place.
OwnerGateWitness ==
    /\ Done(FirstSlot) /\ call.op = "deleteProduct" /\ call.res = "OK"
    /\ call.productId = ProductId(3)
    /\ pre.products[call.productId].creatorId = caller
    /\ call.productId \notin DOMAIN products

\* The operations that require a token.
ProtectedOps ==
    {"createProduct", "updateProduct", "deleteProduct", "createBid",
     "updateBid", "deleteBid", "deleteConversation", "listConversations"}

\* The tables are as they were when the request began.
StoreAsBefore ==
    /\ bids = pre.bids /\ products = pre.products
    /\ conversations = pre.conversations /\ messages = pre.messages
    /\ users = pre.users

\* C25: verifyToken returns null, and does not throw, for every token that
\* is malformed, expired or signed with another secret; and every
\* operation that requires a token, called without token or with such a
\* token, answers Unauthorized and leaves the store unchanged.
TokenGateFailsClosed ==
    /\ \A t \in UnverifiableTokens : verifyToken(t) = NoPrincipal
    /\ (Done(FirstSlot) /\ call.op \in ProtectedOps
        /\ call.token \notin Users) =>
          call.res = "Unauthorized" /\ StoreAsBefore

\* A deleteBid with an expired token has been answered, with the bid, a
\* product of the caller's making and a conversation in the store.
TokenGateWitness ==
    /\ Done(FirstSlot) /\ call.op = "deleteBid"
    /\ call.token = ExpiredToken /\ call.res = "Unauthorized"
    /\ BidExists(bids, call.id) /\ conversations # {}
    /\ ProductId(3) \in DOMAIN products
====
